---------------------------- MODULE Spec2Model ----------------------------
(***************************************************************************)
(* A model of the PE/COFF decoder peparser-rs: PE::parse and the readers   *)
(* it composes (DOS header, NT header, optional header, data directories,  *)
(* section table, import table, export table), over byte buffers.          *)
(*                                                                         *)
(* A byte is a number in 0..255, a buffer a sequence of bytes.  Every      *)
(* input slice the decoder handles is a suffix of the original buffer, so  *)
(* a slice is its start offset (0-based) into `file`.  A u16 is a number;  *)
(* a u32 is the pair <<high 16 bits, low 16 bits>>; a u64 is a pair of     *)
(* u32, <<high, low>>: the model keeps the widths of the code.             *)
(***************************************************************************)
EXTENDS Integers, Sequences, FiniteSets, TLC

VARIABLES
    file,             \* the input buffer, PE.file
    overflow_checks,  \* build profile: arithmetic overflow panics (TRUE) or wraps
    pc,               \* the statement PE::parse is at
    i,                \* the remaining-input cursor, as an offset into file
    dos_header,       \* PEHeader.dos_header
    file_header,      \* NTHeader.file_header
    magic,            \* the OptionalHeaderMagic read before the optional header
    optional_header,  \* NTHeader.optional_header
    sections,         \* PEHeader.sections
    imports,          \* PE.imports : Option<Imports>
    export,           \* PE.export : Option<ExportDirectoryTable>
    outcome,          \* "running", "ok" (an image), "err" (an error value), "abort" (a panic)
    errors,           \* PEError.errors, the trail of (position, reason) pairs
    visited,          \* the stages PE::parse has run, in order
    arg,              \* the argument of the function a unit specification applies
    ret               \* its result

vars == <<file, overflow_checks, pc, i, dos_header, file_header, magic,
          optional_header, sections, imports, export, outcome, errors,
          visited, arg, ret>>

----------------------------------------------------------------------------
(* Fixed-width integers.                                                   *)

W16 == 256 * 256

U32(hi, lo) == <<hi, lo>>

U32Zero == <<0, 0>>

\* a >= b on u32
U32Ge(a, b) == a[1] > b[1] \/ (a[1] = b[1] /\ a[2] >= b[2])

\* a - b on u32, for a >= b
U32Sub(a, b) ==
    IF a[2] >= b[2] THEN <<a[1] - b[1], a[2] - b[2]>>
    ELSE <<a[1] - b[1] - 1, a[2] + W16 - b[2]>>

\* a + b overflows 32 bits
U32AddOverflows(a, b) == a[1] + b[1] + ((a[2] + b[2]) \div W16) >= W16

\* a + b modulo 2^32
U32WrappingAdd(a, b) ==
    <<(a[1] + b[1] + ((a[2] + b[2]) \div W16)) % W16, (a[2] + b[2]) % W16>>

\* `x as usize` fits below the length of any buffer of the model when its
\* high half is zero; InBuffer(x, n) is x as usize <= n for n < 65536.
AsUsizeLe(x, n) == x[1] = 0 /\ x[2] <= n

----------------------------------------------------------------------------
(* errors.rs: the error trail.                                             *)

Nom(kind) == [tag |-> "Nom", what |-> kind]
Context(ctx) == [tag |-> "Context", what |-> ctx]
String(s) == [tag |-> "String", what |-> s]

\* ParseError::from_error_kind, FromExternalError::from_external_error
from_error_kind(input, kind) == <<[at |-> input, reason |-> Nom(kind)]>>

\* ParseError::append
append(input, kind, other) == Append(other, [at |-> input, reason |-> Nom(kind)])

\* ContextError::add_context mutated: the pair is put in front of the trail
add_context_front(input, ctx, other) ==
    <<[at |-> input, reason |-> Context(ctx)]>> \o other

\* ContextError::add_context
add_context(input, ctx, other) == Append(other, [at |-> input, reason |-> Context(ctx)])

\* PEError::from_string
from_string(input, s) == <<[at |-> input, reason |-> String(s)]>>

----------------------------------------------------------------------------
(* nom's primitive readers over file, at offset p.  A result is            *)
(* [ok, pos, val, errors]: on success the offset after the read and the    *)
(* value; on failure the trail; a panic has no value and no trail.         *)

Ok(p, v) == [ok |-> TRUE, panic |-> FALSE, pos |-> p, val |-> v, errors |-> <<>>]
Fail(trail) == [ok |-> FALSE, panic |-> FALSE, pos |-> 0, val |-> 0, errors |-> trail]
\* a panic: an out-of-range slice index, an unwrap of nothing, an overflow check
Panic == [ok |-> FALSE, panic |-> TRUE, pos |-> 0, val |-> 0, errors |-> <<>>]

Remaining(f, p) == Len(f) - p
Byte(f, p) == f[p + 1]
Slice(f, p, n) == [k \in 1..n |-> f[p + k]]

be_u8(f, p) ==
    IF Remaining(f, p) < 1 THEN Fail(from_error_kind(p, "Eof"))
    ELSE Ok(p + 1, Byte(f, p))

le_u16(f, p) ==
    IF Remaining(f, p) < 2 THEN Fail(from_error_kind(p, "Eof"))
    ELSE Ok(p + 2, Byte(f, p) + 256 * Byte(f, p + 1))

le_u32(f, p) ==
    IF Remaining(f, p) < 4 THEN Fail(from_error_kind(p, "Eof"))
    ELSE Ok(p + 4, U32(Byte(f, p + 2) + 256 * Byte(f, p + 3),
                       Byte(f, p) + 256 * Byte(f, p + 1)))

\* le_u64 mutated: the two halves in the wrong order
le_u64_swapped(f, p) ==
    IF Remaining(f, p) < 8 THEN Fail(from_error_kind(p, "Eof"))
    ELSE Ok(p + 8, <<le_u32(f, p).val, le_u32(f, p + 4).val>>)

le_u64(f, p) ==
    IF Remaining(f, p) < 8 THEN Fail(from_error_kind(p, "Eof"))
    ELSE Ok(p + 8, <<le_u32(f, p + 4).val, le_u32(f, p).val>>)

take(f, p, n) ==
    IF Remaining(f, p) < n THEN Fail(from_error_kind(p, "Eof"))
    ELSE Ok(p + n, Slice(f, p, n))

\* tag mutated: a short input fails with Eof, as the number readers do
tag_eof(f, p, t) ==
    IF Remaining(f, p) < Len(t) THEN Fail(from_error_kind(p, "Eof"))
    ELSE IF Slice(f, p, Len(t)) = t THEN Ok(p + Len(t), t)
    ELSE Fail(from_error_kind(p, "Tag"))

\* bytes::complete::tag: a short input and a different input both fail with Tag
tag(f, p, t) ==
    IF Remaining(f, p) >= Len(t) /\ Slice(f, p, Len(t)) = t
    THEN Ok(p + Len(t), t)
    ELSE Fail(from_error_kind(p, "Tag"))

\* context mutated: the failure passes with its trail as it is
context_dropped(ctx, p, r) == r

\* error::context: adds (input, ctx) to the trail of a failure
context(ctx, p, r) ==
    IF r.ok THEN r ELSE Fail(add_context(p, ctx, r.errors))

\* the `?` operator and Result::and_then: the rest runs on a success only;
\* a failure (or a panic) is what the whole evaluates to
and_then(r, rest(_)) == IF r.ok THEN rest(r) ELSE r

\* One reader of a tuple((...)): rd.p names the primitive, rd.ctx its context
\* ("" when the reader is not wrapped in context), rd.n the length of a take.
Primitive(f, p, rd) ==
    CASE rd.p = "be_u8"  -> be_u8(f, p)
      [] rd.p = "le_u16" -> le_u16(f, p)
      [] rd.p = "le_u32" -> le_u32(f, p)
      [] rd.p = "le_u64" -> le_u64(f, p)
      [] rd.p = "take"   -> take(f, p, rd.n)
      [] rd.p = "tag"    -> tag(f, p, rd.t)

Reader(f, p, rd) ==
    IF rd.ctx = "" THEN Primitive(f, p, rd) ELSE context(rd.ctx, p, Primitive(f, p, rd))

\* sequence::tuple: the readers in order, stopping at the first failure;
\* the value is the record of the fields read (rd.field names each).
RECURSIVE tupleFrom(_, _, _, _, _)
tupleFrom(f, p, rds, k, acc) ==
    IF k > Len(rds) THEN Ok(p, acc)
    ELSE and_then(Reader(f, p, rds[k]), LAMBDA r :
         tupleFrom(f, r.pos, rds, k + 1, acc @@ (rds[k].field :> r.val)))

tuple(f, p, rds) == tupleFrom(f, p, rds, 1, <<>>)

Rd(ctx, field, prim) == [ctx |-> ctx, field |-> field, p |-> prim, n |-> 0, t |-> <<>>]
RdTake(ctx, field, n) == [ctx |-> ctx, field |-> field, p |-> "take", n |-> n, t |-> <<>>]
RdTag(ctx, field, t) == [ctx |-> ctx, field |-> field, p |-> "tag", n |-> 0, t |-> t]

----------------------------------------------------------------------------
(* headers/dos.rs                                                          *)

DosHeader_MAGIC == <<\h4d, \h5a>>

DosHeader_readers ==
    << RdTag("magic", "magic", DosHeader_MAGIC),
       Rd("cblp", "cblp", "le_u16"),
       Rd("cp", "cp", "le_u16"),
       Rd("crlc", "crlc", "le_u16"),
       Rd("cparhdr", "cparhdr", "le_u16"),
       Rd("minalloc", "minalloc", "le_u16"),
       Rd("maxalloc", "maxalloc", "le_u16"),
       Rd("ss", "ss", "le_u16"),
       Rd("sp", "sp", "le_u16"),
       Rd("csum", "csum", "le_u16"),
       Rd("ip", "ip", "le_u16"),
       Rd("cs", "cs", "le_u16"),
       Rd("lfarlc", "lfarlc", "le_u16"),
       Rd("ovno", "ovno", "le_u16"),
       RdTake("res", "res", 8),
       Rd("oemid", "oemid", "le_u16"),
       Rd("oeminfo", "oeminfo", "le_u16"),
       RdTake("res2", "res2", 20),
       RdTake("lfanew", "lfanew", 4),
       RdTake("stub", "stub", 64) >>

DosHeader_parse(f, p) == tuple(f, p, DosHeader_readers)

\* the number of bytes DosHeader::parse consumes
RECURSIVE ReadersSize(_, _)
ReadersSize(rds, k) ==
    IF k > Len(rds) THEN 0
    ELSE (CASE rds[k].p = "be_u8" -> 1
            [] rds[k].p = "le_u16" -> 2
            [] rds[k].p = "le_u32" -> 4
            [] rds[k].p = "le_u64" -> 8
            [] rds[k].p = "take" -> rds[k].n
            [] rds[k].p = "tag" -> Len(rds[k].t)) + ReadersSize(rds, k + 1)

DosHeaderSize == ReadersSize(DosHeader_readers, 1)

----------------------------------------------------------------------------
(* headers/nt.rs                                                           *)

NTHeader_SIGNAUTRE == <<\h50, \h45, \h00, \h00>>

\* enum Machine, by its u16 codes
Machine ==
    { \h0, \h184, \h284, \h1d3, \h8664, \h1c0, \haa64, \h1c4, \hebc, \h14c,
      \h200, \h6232, \h6264, \h9041, \h266, \h366, \h466, \h1f0, \h1f1,
      \h166, \h5032, \h5064, \h5128, \h1a2, \h1a3, \h1a6, \h1a8, \h1c2, \h169 }

\* Machine::parse mutated: every 16-bit code is taken as a machine
Machine_parse_any(f, p) == le_u16(f, p)

\* map_res(le_u16, try_from): the failure of try_from is MapRes at the input
Machine_parse(f, p) ==
    and_then(le_u16(f, p), LAMBDA r :
    IF r.val \in Machine THEN r ELSE Fail(from_error_kind(p, "MapRes")))

\* enum OptionalHeaderMagic
Pe32 == \h10b
Pe32Plus == \h20b
Rom == \h107
OptionalHeaderMagic == {Pe32, Pe32Plus, Rom}

OptionalHeaderMagic_parse(f, p) ==
    and_then(le_u16(f, p), LAMBDA r :
    IF r.val \in OptionalHeaderMagic THEN r ELSE Fail(from_error_kind(p, "MapRes")))

\* chrono::NaiveDateTime::from_timestamp_opt(secs as i64, 0) for a u32 secs:
\* the day number and the second of the day, defined when the day is a date
\* chrono can represent.
MaxDaysFromCe == 262143 * 365 + (262143 \div 4) - (262143 \div 100) + (262143 \div 400)
SecsDiv128(ts) == ts[1] * 512 + (ts[2] \div 128)
\* from_timestamp_opt mutated: the seconds are taken as a signed 32-bit
\* number and a negative one is no datetime
from_timestamp_opt_signed(ts) ==
    [some |-> ts[1] < \h8000,
     days |-> SecsDiv128(ts) \div 675,
     secs |-> (SecsDiv128(ts) % 675) * 128 + (ts[2] % 128)]

from_timestamp_opt(ts) ==
    LET days == SecsDiv128(ts) \div 675
        secs == (SecsDiv128(ts) % 675) * 128 + (ts[2] % 128)
    IN  [some |-> days + 719163 <= MaxDaysFromCe, days |-> days, secs |-> secs]

FileHeader_readers ==
    << Rd("NumOfSections", "num_of_sections", "le_u16"),
       Rd("Timestamp", "timestamp", "le_u32"),
       Rd("PtrToSymbolTable", "ptr_to_sym_tbl", "le_u32"),
       Rd("NumOfSymbols", "num_of_syms", "le_u32"),
       Rd("SizeOfHeader", "size_of_optional_header", "le_u16"),
       Rd("Characteristics", "characteristics", "le_u16") >>

FileHeader_parse(f, p) ==
    and_then(Machine_parse(f, p), LAMBDA m :
    and_then(tuple(f, m.pos, FileHeader_readers), LAMBDA r :
    LET dt == from_timestamp_opt(r.val.timestamp) IN
    IF ~dt.some THEN Fail(from_string(r.pos, "wrong timestamp format"))
    ELSE Ok(r.pos,
            [machine |-> m.val,
             num_of_sections |-> r.val.num_of_sections,
             datetime |-> [days |-> dt.days, secs |-> dt.secs],
             ptr_to_sym_tbl |-> r.val.ptr_to_sym_tbl,
             num_of_syms |-> r.val.num_of_syms,
             size_of_optional_header |-> r.val.size_of_optional_header,
             characteristics |-> r.val.characteristics])))

\* enum DirectoryEntry, in the order of its discriminants 0..15
DirectoryEntry ==
    << "Export", "Import", "Resource", "Exception", "Certificate",
       "BaseRelocation", "Debug", "Architecture", "Globalptr", "Tls",
       "LoadConfig", "BoundImport", "ImportAddressTable", "DelayImport",
       "ClrRuntime", "Reserved" >>

\* DirectoryEntry::value
DirectoryEntry_value(entry) == (CHOOSE k \in 1..Len(DirectoryEntry) : DirectoryEntry[k] = entry) - 1

\* DataDirectory::parse
DataDirectory_parse(entry, f, p) ==
    and_then(tuple(f, p, << Rd("", "virtual_address", "le_u32"), Rd("", "size", "le_u32") >>),
             LAMBDA r : Ok(r.pos, [entry |-> entry,
                                   virtual_address |-> r.val.virtual_address,
                                   size |-> r.val.size]))

\* DataDirectories::parse mutated: an index past the 16 kinds is read as Reserved
RECURSIVE DataDirectories_unbounded(_, _, _, _, _)
DataDirectories_unbounded(f, input, idx, count, directories) ==
    IF ~(count[1] > 0 \/ idx < count[2]) THEN Ok(input, directories)
    ELSE and_then(tuple(f, input, << Rd("", "virtual_address", "le_u32"), Rd("", "size", "le_u32") >>),
                  LAMBDA r : DataDirectories_unbounded(f, r.pos, idx + 1, count,
                      Append(directories,
                             [entry |-> IF idx < 16 THEN DirectoryEntry[idx + 1] ELSE "Reserved",
                              virtual_address |-> r.val.virtual_address,
                              size |-> r.val.size])))

\* DataDirectories::parse: for idx in 0..count, count a u32 taken as usize
RECURSIVE DataDirectories_from(_, _, _, _, _)
DataDirectories_from(f, input, idx, count, directories) ==
    IF ~(count[1] > 0 \/ idx < count[2]) THEN Ok(input, directories)
    ELSE IF idx >= Len(DirectoryEntry)
         THEN Fail(from_string(input, "unknown image directory"))
    ELSE and_then(DataDirectory_parse(DirectoryEntry[idx + 1], f, input), LAMBDA r :
         DataDirectories_from(f, r.pos, idx + 1, count, Append(directories, r.val)))

\* DataDirectories::parse mutated: a count of 0 reads one entry
DataDirectories_parse_one(f, input, count) ==
    DataDirectories_from(f, input, 0, IF count = U32Zero THEN U32(0, 1) ELSE count, <<>>)

DataDirectories_parse(f, input, count) == DataDirectories_from(f, input, 0, count, <<>>)

None == [some |-> FALSE]
Some(v) == [some |-> TRUE, val |-> v]

\* DataDirectories::find_by_entry mutated: any non-empty table answers with
\* its first entry
find_by_entry_first(directories, entry) ==
    IF Len(directories) = 0 THEN None ELSE Some(directories[1])

\* DataDirectories::find_by_entry
find_by_entry(directories, entry) ==
    IF DirectoryEntry_value(entry) >= Len(directories) THEN None
    ELSE Some(directories[DirectoryEntry_value(entry) + 1])

OptionalHeader32_readers ==
    << Rd("MajorLinkerVersion", "major_linker_version", "be_u8"),
       Rd("MinorLinkerVersion", "minor_linker_version", "be_u8"),
       Rd("SizeOfCode", "size_of_code", "le_u32"),
       Rd("SizeOfInitializedCode", "size_of_initialized_code", "le_u32"),
       Rd("SizeOfUninitializedCode", "size_of_uninitialized_code", "le_u32"),
       Rd("AddressOfEntryPoint", "address_of_entry_point", "le_u32"),
       Rd("BaseOfCode", "base_of_code", "le_u32"),
       Rd("BaseOfData", "base_of_data", "le_u32"),
       Rd("ImageBase", "image_base", "le_u32"),
       Rd("SectionOfAlignment", "section_of_alignment", "le_u32"),
       Rd("FileAlignment", "file_alignment", "le_u32"),
       Rd("MajorOperatingSystemVersion", "major_operating_system_version", "le_u16"),
       Rd("MinorOperatingSystemVersion", "minor_operating_system_version", "le_u16"),
       Rd("MajorImageVersion", "major_image_version", "le_u16"),
       Rd("MinorImageVersion", "minor_image_version", "le_u16"),
       Rd("MajorSubSystemVersion", "major_sub_system_version", "le_u16"),
       Rd("MinorSubSystemVersion", "minor_sub_system_version", "le_u16"),
       Rd("Win32VersionValue", "win32_version_value", "le_u32"),
       Rd("SizeOfImage", "size_of_image", "le_u32"),
       Rd("SizeOfHeaders", "size_of_headers", "le_u32"),
       Rd("CheckSum", "check_sum", "le_u32"),
       Rd("Subsystem", "sub_system", "le_u16"),
       Rd("DllCharacteristics", "dll_characteristics", "le_u16"),
       Rd("SizeOfStackReserve", "size_of_stack_reserve", "le_u32"),
       Rd("SizeOfStackCommit", "size_of_stack_commit", "le_u32"),
       Rd("SizeOfHeapReserve", "size_of_heap_reserve", "le_u32"),
       Rd("SizeOfHeapCommit", "size_of_heap_commit", "le_u32"),
       Rd("LoaderFlags", "loader_flags", "le_u32"),
       Rd("NumberOfRvaAndSizes", "number_of_rva_and_sizes", "le_u32") >>

\* OptionalHeader64::parse mutated: the fields of the 32-bit reader without
\* BaseOfData, each at its 32-bit width
OptionalHeader64_readers_narrow ==
    SelectSeq(OptionalHeader32_readers, LAMBDA r : r.field # "base_of_data")

OptionalHeader64_readers ==
    << Rd("MajorLinkerVersion", "major_linker_version", "be_u8"),
       Rd("MinorLinkerVersion", "minor_linker_version", "be_u8"),
       Rd("SizeOfCode", "size_of_code", "le_u32"),
       Rd("SizeOfInitializedCode", "size_of_initialized_code", "le_u32"),
       Rd("SizeOfUninitializedCode", "size_of_uninitialized_code", "le_u32"),
       Rd("AddressOfEntryPoint", "address_of_entry_point", "le_u32"),
       Rd("BaseOfCode", "base_of_code", "le_u32"),
       Rd("ImageBase", "image_base", "le_u64"),
       Rd("SectionOfAlignment", "section_of_alignment", "le_u32"),
       Rd("FileAlignment", "file_alignment", "le_u32"),
       Rd("MajorOperatingSystemVersion", "major_operating_system_version", "le_u16"),
       Rd("MinorOperatingSystemVersion", "minor_operating_system_version", "le_u16"),
       Rd("MajorImageVersion", "major_image_version", "le_u16"),
       Rd("MinorImageVersion", "minor_image_version", "le_u16"),
       Rd("MajorSubSystemVersion", "major_sub_system_version", "le_u16"),
       Rd("MinorSubSystemVersion", "minor_sub_system_version", "le_u16"),
       Rd("Win32VersionValue", "win32_version_value", "le_u32"),
       Rd("SizeOfImage", "size_of_image", "le_u32"),
       Rd("SizeOfHeaders", "size_of_headers", "le_u32"),
       Rd("CheckSum", "check_sum", "le_u32"),
       Rd("Subsystem", "sub_system", "le_u16"),
       Rd("DllCharacteristics", "dll_characteristics", "le_u16"),
       Rd("SizeOfStackReserve", "size_of_stack_reserve", "le_u64"),
       Rd("SizeOfStackCommit", "size_of_stack_commit", "le_u64"),
       Rd("SizeOfHeapReserve", "size_of_heap_reserve", "le_u64"),
       Rd("SizeOfHeapCommit", "size_of_heap_commit", "le_u64"),
       Rd("LoaderFlags", "loader_flags", "le_u32"),
       Rd("NumberOfRvaAndSizes", "number_of_rva_and_sizes", "le_u32") >>

\* OptionalHeader32::parse and OptionalHeader64::parse: the scalar fields,
\* then the data directories; the value is the struct, tagged with its variant
OptionalHeaderN_parse(f, p, variant, m, rds) ==
    and_then(tuple(f, p, rds), LAMBDA r :
    and_then(DataDirectories_parse(f, r.pos, r.val.number_of_rva_and_sizes), LAMBDA d :
    Ok(d.pos, [variant |-> variant,
               fields |-> r.val @@ ("magic" :> m),
               data_directories |-> d.val])))

OptionalHeader32_parse(f, p) == OptionalHeaderN_parse(f, p, "Op32", Pe32, OptionalHeader32_readers)

OptionalHeader64_parse(f, p) == OptionalHeaderN_parse(f, p, "Op64", Pe32Plus, OptionalHeader64_readers)

\* OptionalHeader::parse
OptionalHeader_parse(f, p, m) ==
    CASE m = Pe32 -> OptionalHeader32_parse(f, p)
      [] m = Pe32Plus -> OptionalHeader64_parse(f, p)
      [] m = Rom -> Fail(from_string(p, "ROM Images are not supported"))

\* OptionalHeader::find_directory_by_entry
find_directory_by_entry(oh, entry) == find_by_entry(oh.data_directories, entry)

----------------------------------------------------------------------------
(* Strings.  A String is the sequence of its chars (code points).          *)

REPLACEMENT_CHARACTER == \hFFFD

IsCont(f, p) == p < Len(f) /\ Byte(f, p) >= \h80 /\ Byte(f, p) <= \hBF
InRange(f, p, lo, hi) == p < Len(f) /\ Byte(f, p) >= lo /\ Byte(f, p) <= hi

\* The second byte a lead byte b of a 3- or 4-byte sequence admits
SecondOk(f, p, b) ==
    CASE b = \hE0 -> InRange(f, p, \hA0, \hBF)
      [] b = \hED -> InRange(f, p, \h80, \h9F)
      [] b = \hF0 -> InRange(f, p, \h90, \hBF)
      [] b = \hF4 -> InRange(f, p, \h80, \h8F)
      [] OTHER -> InRange(f, p, \h80, \hBF)

\* core::str::lossy: one chunk at offset p of the byte string f, as
\* <<char, number of bytes>>: a well-formed sequence is its code point; an
\* ill-formed one is U+FFFD for its maximal well-formed prefix (one byte at least)
Utf8Chunk(f, p) ==
    LET b == Byte(f, p) IN
    IF b < \h80 THEN <<b, 1>>
    ELSE IF b >= \hC2 /\ b <= \hDF THEN
        IF IsCont(f, p + 1)
        THEN <<(b - \hC0) * 64 + (Byte(f, p + 1) - \h80), 2>>
        ELSE <<REPLACEMENT_CHARACTER, 1>>
    ELSE IF b >= \hE0 /\ b <= \hEF THEN
        IF ~SecondOk(f, p + 1, b) THEN <<REPLACEMENT_CHARACTER, 1>>
        ELSE IF ~IsCont(f, p + 2) THEN <<REPLACEMENT_CHARACTER, 2>>
        ELSE <<(b - \hE0) * 4096 + (Byte(f, p + 1) - \h80) * 64 + (Byte(f, p + 2) - \h80), 3>>
    ELSE IF b >= \hF0 /\ b <= \hF4 THEN
        IF ~SecondOk(f, p + 1, b) THEN <<REPLACEMENT_CHARACTER, 1>>
        ELSE IF ~IsCont(f, p + 2) THEN <<REPLACEMENT_CHARACTER, 2>>
        ELSE IF ~IsCont(f, p + 3) THEN <<REPLACEMENT_CHARACTER, 3>>
        ELSE <<(b - \hF0) * 262144 + (Byte(f, p + 1) - \h80) * 4096
                 + (Byte(f, p + 2) - \h80) * 64 + (Byte(f, p + 3) - \h80), 4>>
    ELSE <<REPLACEMENT_CHARACTER, 1>>

\* String::from_utf8_lossy of a byte string
RECURSIVE from_utf8_lossy_from(_, _)
from_utf8_lossy_from(bytes, p) ==
    IF p >= Len(bytes) THEN <<>>
    ELSE LET c == Utf8Chunk(bytes, p) IN <<c[1]>> \o from_utf8_lossy_from(bytes, p + c[2])

from_utf8_lossy(bytes) == from_utf8_lossy_from(bytes, 0)

\* str::trim_end_matches(c): without the longest suffix of chars equal to c
RECURSIVE trim_end_matches(_, _)
trim_end_matches(s, c) ==
    IF Len(s) > 0 /\ s[Len(s)] = c THEN trim_end_matches(SubSeq(s, 1, Len(s) - 1), c)
    ELSE s

\* slice.iter().position(|&c| c == 0).unwrap_or(slice.len()) for the slice
\* file[p..]: the offset into file of its first NUL, or the end of file
RECURSIVE position_nul(_, _)
position_nul(f, p) ==
    IF p >= Len(f) THEN Len(f)
    ELSE IF Byte(f, p) = 0 THEN p
    ELSE position_nul(f, p + 1)

----------------------------------------------------------------------------
(* utils.rs                                                                *)

\* read_null_terminated_string(&file[p..])
read_null_terminated_string(f, p) ==
    from_utf8_lossy(Slice(f, p, position_nul(f, p) - p))

----------------------------------------------------------------------------
(* headers/sections.rs                                                     *)

Section_readers ==
    << RdTake("Name", "name", 8),
       Rd("VirtualSize", "vir_size", "le_u32"),
       Rd("VirtualAddress", "vir_addr", "le_u32"),
       Rd("SizeOfRawData", "size_of_raw_data", "le_u32"),
       Rd("PointerToRawData", "ptr_to_raw_data", "le_u32"),
       Rd("PointerToRelocations", "ptr_to_relocs", "le_u32"),
       Rd("PointerToLinenumbers", "ptr_to_line_nums", "le_u32"),
       Rd("NumberOfRelocations", "num_of_relocs", "le_u16"),
       Rd("NumberOfLineNumbers", "num_of_line_nums", "le_u16"),
       Rd("Characteristics", "characteristics", "le_u32") >>

\* the name of a section from its 8 name bytes
Section_name(bytes) == trim_end_matches(from_utf8_lossy(bytes), 0)

\* Section::parse
Section_parse(f, p) ==
    and_then(tuple(f, p, Section_readers), LAMBDA r :
    Ok(r.pos, [r.val EXCEPT !.name = Section_name(r.val.name)]))

\* Sections::parse mutated: a record that the buffer does not hold ends the
\* table with the records read so far
RECURSIVE Sections_lenient(_, _, _, _)
Sections_lenient(f, input, left, acc) ==
    IF left = 0 \/ Remaining(f, input) < 40 THEN Ok(input, acc)
    ELSE and_then(Section_parse(f, input), LAMBDA r :
         Sections_lenient(f, r.pos, left - 1, Append(acc, r.val)))

\* Sections::parse: num_of_sections records one after the other
RECURSIVE Sections_from(_, _, _, _)
Sections_from(f, input, left, acc) ==
    IF left = 0 THEN Ok(input, acc)
    ELSE and_then(Section_parse(f, input), LAMBDA r :
         Sections_from(f, r.pos, left - 1, Append(acc, r.val)))

\* the cursor returned is the one given, not the one after the table
Sections_parse(f, p, num_of_sections) ==
    and_then(Sections_from(f, p, num_of_sections, <<>>), LAMBDA r : Ok(p, r.val))

\* Section::rva_to_offset: Some(rva - vir_addr + ptr_to_raw_data) when
\* rva >= vir_addr, None otherwise.  The u32 addition that overflows panics
\* in a build with overflow checks and wraps in a build without.
rva_to_offset(section, rva) ==
    IF U32Ge(rva, section.vir_addr) THEN
        IF U32AddOverflows(U32Sub(rva, section.vir_addr), section.ptr_to_raw_data)
           /\ overflow_checks
        THEN Panic
        ELSE Ok(0, Some(U32WrappingAdd(U32Sub(rva, section.vir_addr),
                                       section.ptr_to_raw_data)))
    ELSE Ok(0, None)

\* Sections::find_by_address mutated: the last section that qualifies
find_by_address_last(secs, rva) ==
    IF \E k \in 1..Len(secs) : U32Ge(rva, secs[k].vir_addr)
    THEN Some(secs[CHOOSE k \in 1..Len(secs) :
                     /\ U32Ge(rva, secs[k].vir_addr)
                     /\ \A j \in (k + 1)..Len(secs) : ~U32Ge(rva, secs[j].vir_addr)])
    ELSE None

\* Sections::find_by_address: the first section, in table order, whose
\* virtual address is not above rva (no upper bound is checked)
find_by_address(secs, rva) ==
    IF \E k \in 1..Len(secs) : U32Ge(rva, secs[k].vir_addr)
    THEN Some(secs[CHOOSE k \in 1..Len(secs) :
                     /\ U32Ge(rva, secs[k].vir_addr)
                     /\ \A j \in 1..(k - 1) : ~U32Ge(rva, secs[j].vir_addr)])
    ELSE None

----------------------------------------------------------------------------
(* imports/import_directory_table.rs                                       *)

\* &file[offset as usize..] is in range
SliceFrom(f, offset) == AsUsizeLe(offset, Len(f))

\* match opt { Some(v) => some(v), None => none }
match(opt, none, some(_)) == IF opt.some THEN some(opt.val) ELSE none

\* Option::unwrap: None panics
unwrap(opt, rest(_)) == match(opt, Panic, rest)

\* &file[offset as usize..]: out of range, the slice panics
slice_from(f, offset, rest(_)) ==
    IF ~SliceFrom(f, offset) THEN Panic ELSE rest(offset[2])

\* ImportDescriptor::read_c_string(&file[p..]): the string before the first
\* NUL; tail.split_at(1) panics when there is no NUL to skip
read_c_string(f, p) ==
    IF position_nul(f, p) >= Len(f) THEN Panic
    ELSE Ok(position_nul(f, p) + 1, from_utf8_lossy(Slice(f, p, position_nul(f, p) - p)))

\* ImportDescriptor::get_dll_name mutated: the name RVA is translated
\* without the test against the section's virtual address
get_dll_name_unchecked(f, name_rva, section) ==
    slice_from(f, U32WrappingAdd(U32Sub(name_rva, section.vir_addr), section.ptr_to_raw_data),
               LAMBDA p :
    and_then(read_c_string(f, p), LAMBDA r : Ok(0, Some(r.val))))

\* ImportDescriptor::get_dll_name: Ok(_, Some(name)), Ok(_, None) or a panic
get_dll_name(f, name_rva, section) ==
    and_then(rva_to_offset(section, name_rva), LAMBDA o :
    match(o.val, Ok(0, None), LAMBDA offset :
    slice_from(f, offset, LAMBDA p :
    and_then(read_c_string(f, p), LAMBDA r : Ok(0, Some(r.val))))))

\* ImportByNames::read_import_lookup_table, from current_offset on:
\* &file[current_offset..] must be in range and hold the 4 bytes read_u32 reads
RECURSIVE read_import_lookup_table_from(_, _, _)
read_import_lookup_table_from(f, current_offset, entries) ==
    IF current_offset > Len(f) \/ Remaining(f, current_offset) < 4 THEN Panic
    ELSE LET entry == le_u32(f, current_offset).val IN
         IF entry = U32Zero THEN Ok(current_offset, entries)
         ELSE read_import_lookup_table_from(f, current_offset + 4, Append(entries, entry))

read_import_lookup_table(f, rva, section) ==
    and_then(rva_to_offset(section, rva), LAMBDA o :
    match(o.val, Ok(0, <<>>), LAMBDA offset :
    slice_from(f, offset, LAMBDA p :
    read_import_lookup_table_from(f, p, <<>>))))

\* ImportByName::parse: Ok(_, Some([hint, name])), Ok(_, None) or a panic
ImportByName_parse(f, rva, section) ==
    and_then(rva_to_offset(section, rva), LAMBDA o :
    match(o.val, Ok(0, None), LAMBDA offset :
    slice_from(f, offset, LAMBDA p :
    IF Remaining(f, p) < 2 THEN Panic
    ELSE Ok(0, Some([hint |-> le_u16(f, p).val,
                     name |-> read_null_terminated_string(f, p + 2)])))))

\* entry & 0x80000000 != 0
IsOrdinal(entry) == entry[1] >= \h8000

\* ImportByNames::parse, the loop over the lookup-table entries from k on
RECURSIVE ImportByNames_from(_, _, _, _, _)
ImportByNames_from(f, ilt, k, section, import_by_names) ==
    IF k > Len(ilt) THEN Ok(0, import_by_names)
    ELSE IF IsOrdinal(ilt[k]) THEN ImportByNames_from(f, ilt, k + 1, section, import_by_names)
    ELSE and_then(ImportByName_parse(f, ilt[k], section), LAMBDA r :
         ImportByNames_from(f, ilt, k + 1, section,
                            IF r.val.some THEN Append(import_by_names, r.val.val)
                            ELSE import_by_names))

ImportByNames_parse(f, original_first_thunk, section) ==
    and_then(read_import_lookup_table(f, original_first_thunk, section), LAMBDA ilt :
    ImportByNames_from(f, ilt.val, 1, section, <<>>))

ImportDescriptor_readers ==
    << Rd("OriginalFirstThunk", "original_first_thunk", "le_u32"),
       Rd("TimeDateStamp", "time_date_stamp", "le_u32"),
       Rd("ForwarderChain", "forwarder_chain", "le_u32"),
       Rd("Name", "name_rva", "le_u32"),
       Rd("FirstThunk", "first_thunk", "le_u32") >>

\* ImportDescriptor::parse at offset p: the five fields, the DLL name, the imports
ImportDescriptor_parse(f, p, section) ==
    and_then(tuple(f, p, ImportDescriptor_readers), LAMBDA r :
    and_then(get_dll_name(f, r.val.name_rva, section), LAMBDA name :
    and_then(ImportByNames_parse(f, r.val.original_first_thunk, section), LAMBDA import_by_names :
    Ok(r.pos,
       [original_first_thunk |-> r.val.original_first_thunk,
        is_bound |-> r.val.time_date_stamp # U32Zero,
        time_date_stamp |-> r.val.time_date_stamp,
        forwarder_chain |-> r.val.forwarder_chain,
        name_rva |-> r.val.name_rva,
        name |-> IF name.val.some THEN name.val.val ELSE <<>>,
        first_thunk |-> r.val.first_thunk,
        import_by_names |-> import_by_names.val]))))

\* the test that ends the walk mutated: a descriptor with no lookup table
\* and no name ends it
IsTerminator_lookup(descriptor) ==
    /\ descriptor.original_first_thunk = U32Zero
    /\ descriptor.name_rva = U32Zero

\* the test that ends the walk of the descriptors
IsTerminator(descriptor) ==
    /\ descriptor.original_first_thunk = U32Zero
    /\ descriptor.time_date_stamp = U32Zero
    /\ descriptor.forwarder_chain = U32Zero
    /\ descriptor.name_rva = U32Zero
    /\ descriptor.first_thunk = U32Zero

\* ImportDirectoryTable::parse, the loop from cur_input on
RECURSIVE ImportDirectoryTable_from(_, _, _, _)
ImportDirectoryTable_from(f, cur_input, section, res) ==
    and_then(ImportDescriptor_parse(f, cur_input, section), LAMBDA r :
    IF IsTerminator(r.val) THEN Ok(cur_input, res)
    ELSE ImportDirectoryTable_from(f, r.pos, section, Append(res, r.val)))

\* the offset in the file that a directory's table is read from:
\* find_by_address, rva_to_offset, &pe_file[offset as usize..]; None when
\* one of the three gives no offset inside the buffer
directory_offset(f, secs, rva) ==
    match(find_by_address(secs, rva), None, LAMBDA section :
    IF ~rva_to_offset(section, rva).ok THEN None
    ELSE match(rva_to_offset(section, rva).val, None, LAMBDA offset :
         IF SliceFrom(f, offset) THEN Some(offset[2]) ELSE None))

\* ImportDirectoryTable::parse mutated: a directory that no section holds
\* is an error
ImportDirectoryTable_parse_strict(f, import_directory, secs) ==
    match(find_by_address(secs, import_directory.virtual_address),
          Fail(from_string(0, "no section")), LAMBDA section :
    and_then(rva_to_offset(section, import_directory.virtual_address), LAMBDA o :
    unwrap(o.val, LAMBDA offset :
    slice_from(f, offset, LAMBDA section_data :
    ImportDirectoryTable_from(f, section_data, section, <<>>)))))

\* ImportDirectoryTable::parse
ImportDirectoryTable_parse(f, import_directory, secs) ==
    match(find_by_address(secs, import_directory.virtual_address), Ok(0, <<>>), LAMBDA section :
    and_then(rva_to_offset(section, import_directory.virtual_address), LAMBDA o :
    unwrap(o.val, LAMBDA offset :
    slice_from(f, offset, LAMBDA section_data :
    ImportDirectoryTable_from(f, section_data, section, <<>>)))))

----------------------------------------------------------------------------
(* imports/mod.rs                                                          *)

\* Imports::parse
Imports_parse(f, import_directory, secs) ==
    and_then(ImportDirectoryTable_parse(f, import_directory, secs), LAMBDA r :
    Ok(0, [directory_table |-> r.val]))

----------------------------------------------------------------------------
(* exports/export_directory_table.rs                                       *)

ExportDirectoryTable_readers ==
    << Rd("Characteristics", "characteristics", "le_u32"),
       Rd("TimeDateStamp", "time_date_stamp", "le_u32"),
       Rd("MajorVersion", "major_version", "le_u16"),
       Rd("MinorVersion", "minor_version", "le_u16"),
       Rd("Name", "name", "le_u32"),
       Rd("Base", "base", "le_u32"),
       Rd("NumberOfFunctions", "num_of_funcs", "le_u32"),
       Rd("NumberOfNames", "num_of_names", "le_u32"),
       Rd("AddressOfFunctions", "addr_of_funcs", "le_u32"),
       Rd("AddressOfNames", "addr_of_names", "le_u32"),
       Rd("AddressOfNameOrdinals", "addr_of_name_ordi", "le_u32") >>

\* ExportDirectoryTable::parse: Ok(_, Some(table)), Ok(_, None), an error or a panic
ExportDirectoryTable_parse(f, export_directory, secs) ==
    match(find_by_address(secs, export_directory.virtual_address), Ok(0, None), LAMBDA section :
    and_then(rva_to_offset(section, export_directory.virtual_address), LAMBDA o :
    unwrap(o.val, LAMBDA offset :
    slice_from(f, offset, LAMBDA section_data :
    and_then(tuple(f, section_data, ExportDirectoryTable_readers), LAMBDA r :
    LET dt == from_timestamp_opt(r.val.time_date_stamp) IN
    IF ~dt.some THEN Fail(from_string(r.pos, "wrong timestamp format"))
    ELSE Ok(r.pos,
            Some([characteristics |-> r.val.characteristics,
                  datetime |-> [days |-> dt.days, secs |-> dt.secs],
                  major_version |-> r.val.major_version,
                  minor_version |-> r.val.minor_version,
                  name |-> r.val.name,
                  base |-> r.val.base,
                  num_of_funcs |-> r.val.num_of_funcs,
                  num_of_names |-> r.val.num_of_names,
                  addr_of_funcs |-> r.val.addr_of_funcs,
                  addr_of_names |-> r.val.addr_of_names,
                  addr_of_name_ordi |-> r.val.addr_of_name_ordi])))))))

----------------------------------------------------------------------------
(* headers/mod.rs and lib.rs: PE::parse, one action per stage.             *)

\* dos_header.lfanew as usize: the 4 bytes of the field, little-endian
lfanew_offset(dh) ==
    U32(dh.lfanew[3] + 256 * dh.lfanew[4], dh.lfanew[1] + 256 * dh.lfanew[2])

\* &pe_file[lfanew..], then the context("Signature", tag(SIGNAUTRE)) of NTHeader::parse
NTHeader_signature(f, lfanew) ==
    IF ~SliceFrom(f, lfanew) THEN Panic
    ELSE context("Signature", lfanew[2], tag(f, lfanew[2], NTHeader_SIGNAUTRE))

\* the `?` mutated: the error is noted and the image is built all the same
Raise_partial(r) ==
    /\ outcome' = outcome
    /\ errors' = r.errors
    /\ pc' = "build"

\* the `?` on a failed stage: PE::parse returns the error (or the panic unwinds)
Raise(r) ==
    /\ outcome' = IF r.panic THEN "abort" ELSE "err"
    /\ errors' = r.errors
    /\ pc' = "done"

Visit(stage) == visited' = Append(visited, stage)

\* the stages of PE::parse in the order of the code: the header (DOS header,
\* NT signature, file header, optional header), the sections, the imports,
\* the export
Stages ==
    << "dos", "nt", "file_header", "magic", "optional_header", "sections",
       "imports", "export" >>

StageIndex(stage) == CHOOSE k \in 1..Len(Stages) : Stages[k] = stage

\* PEHeader::parse: DosHeader::parse(pe_file)
ParseDosHeader ==
    /\ pc = "dos"
    /\ Visit("dos")
    /\ \E r \in {DosHeader_parse(file, 0)} :
       IF r.ok
       THEN /\ dos_header' = r.val
            /\ pc' = "nt"
            /\ UNCHANGED <<outcome, errors>>
       ELSE /\ Raise(r)
            /\ UNCHANGED dos_header
    /\ UNCHANGED <<file, overflow_checks, i, file_header, magic, optional_header,
                   sections, imports, export, arg, ret>>

\* PEHeader::parse: &pe_file[lfanew..], then NTHeader::parse: the signature
ParseSignature ==
    /\ pc = "nt"
    /\ Visit("nt")
    /\ \E r \in {NTHeader_signature(file, lfanew_offset(dos_header))} :
       IF r.ok
       THEN /\ i' = r.pos
            /\ pc' = "file_header"
            /\ UNCHANGED <<outcome, errors>>
       ELSE /\ Raise(r)
            /\ UNCHANGED i
    /\ UNCHANGED <<file, overflow_checks, dos_header, file_header, magic,
                   optional_header, sections, imports, export, arg, ret>>

\* NTHeader::parse: FileHeader::parse(i)
ParseFileHeader ==
    /\ pc = "file_header"
    /\ Visit("file_header")
    /\ \E r \in {FileHeader_parse(file, i)} :
       IF r.ok
       THEN /\ file_header' = r.val
            /\ i' = r.pos
            /\ pc' = "magic"
            /\ UNCHANGED <<outcome, errors>>
       ELSE /\ Raise(r)
            /\ UNCHANGED <<i, file_header>>
    /\ UNCHANGED <<file, overflow_checks, dos_header, magic, optional_header,
                   sections, imports, export, arg, ret>>

\* NTHeader::parse: OptionalHeaderMagic::parse(i)
ParseOptionalHeaderMagic ==
    /\ pc = "magic"
    /\ Visit("magic")
    /\ \E r \in {OptionalHeaderMagic_parse(file, i)} :
       IF r.ok
       THEN /\ magic' = r.val
            /\ i' = r.pos
            /\ pc' = "optional_header"
            /\ UNCHANGED <<outcome, errors>>
       ELSE /\ Raise(r)
            /\ UNCHANGED <<i, magic>>
    /\ UNCHANGED <<file, overflow_checks, dos_header, file_header, optional_header,
                   sections, imports, export, arg, ret>>

\* NTHeader::parse: OptionalHeader::parse(i, magic)
ParseOptionalHeader ==
    /\ pc = "optional_header"
    /\ Visit("optional_header")
    /\ \E r \in {OptionalHeader_parse(file, i, magic)} :
       IF r.ok
       THEN /\ optional_header' = r.val
            /\ i' = r.pos
            /\ pc' = "sections"
            /\ UNCHANGED <<outcome, errors>>
       ELSE /\ Raise(r)
            /\ UNCHANGED <<i, optional_header>>
    /\ UNCHANGED <<file, overflow_checks, dos_header, file_header, magic,
                   sections, imports, export, arg, ret>>

\* PEHeader::parse mutated: the section table is read where
\* SizeOfOptionalHeader says the optional header ends
ParseSections_at_size_of_optional_header ==
    /\ pc = "sections"
    /\ Visit("sections")
    /\ \E r \in {IF lfanew_offset(dos_header)[2] + 24 + file_header.size_of_optional_header
                        > Len(file)
                 THEN Panic
                 ELSE Sections_parse(file,
                          lfanew_offset(dos_header)[2] + 24 + file_header.size_of_optional_header,
                          file_header.num_of_sections)} :
       IF r.ok
       THEN /\ sections' = r.val
            /\ i' = r.pos
            /\ pc' = "imports"
            /\ UNCHANGED <<outcome, errors>>
       ELSE /\ Raise(r)
            /\ UNCHANGED <<i, sections>>
    /\ UNCHANGED <<file, overflow_checks, dos_header, file_header, magic,
                   optional_header, imports, export, arg, ret>>

\* PEHeader::parse: Sections::parse(i, num_of_sections)
ParseSections ==
    /\ pc = "sections"
    /\ Visit("sections")
    /\ \E r \in {Sections_parse(file, i, file_header.num_of_sections)} :
       IF r.ok
       THEN /\ sections' = r.val
            /\ i' = r.pos
            /\ pc' = "imports"
            /\ UNCHANGED <<outcome, errors>>
       ELSE /\ Raise(r)
            /\ UNCHANGED <<i, sections>>
    /\ UNCHANGED <<file, overflow_checks, dos_header, file_header, magic,
                   optional_header, imports, export, arg, ret>>

\* PE::parse: the import directory, when the table has one
ParseImports ==
    /\ pc = "imports"
    /\ \E import_directory_opt \in {find_directory_by_entry(optional_header, "Import")} :
       IF import_directory_opt.some
       THEN \E r \in {Imports_parse(file, import_directory_opt.val, sections)} :
            /\ Visit("imports")
            /\ IF r.ok
               THEN /\ imports' = Some(r.val)
                    /\ pc' = "export"
                    /\ UNCHANGED <<outcome, errors>>
               ELSE /\ Raise(r)
                    /\ UNCHANGED imports
       ELSE /\ imports' = None
            /\ pc' = "export"
            /\ UNCHANGED <<outcome, errors, visited>>
    /\ UNCHANGED <<file, overflow_checks, i, dos_header, file_header, magic,
                   optional_header, sections, export, arg, ret>>

\* PE::parse: the export directory, when the table has one
ParseExport ==
    /\ pc = "export"
    /\ \E export_directory_opt \in {find_directory_by_entry(optional_header, "Export")} :
       IF export_directory_opt.some
       THEN \E r \in {ExportDirectoryTable_parse(file, export_directory_opt.val, sections)} :
            /\ Visit("export")
            /\ IF r.ok
               THEN /\ export' = r.val
                    /\ pc' = "build"
                    /\ UNCHANGED <<outcome, errors>>
               ELSE /\ Raise(r)
                    /\ UNCHANGED export
       ELSE /\ export' = None
            /\ pc' = "build"
            /\ UNCHANGED <<outcome, errors, visited>>
    /\ UNCHANGED <<file, overflow_checks, i, dos_header, file_header, magic,
                   optional_header, sections, imports, arg, ret>>

\* PE::parse: Ok((i, Self { file, header, imports, export }))
ReturnImage ==
    /\ pc = "build"
    /\ outcome' = "ok"
    /\ pc' = "done"
    /\ UNCHANGED <<file, overflow_checks, i, dos_header, file_header, magic,
                   optional_header, sections, imports, export, errors, visited,
                   arg, ret>>

\* PEHeader::parse as one function of the buffer
PEHeader_parse(f) ==
    and_then(DosHeader_parse(f, 0), LAMBDA dh :
    and_then(NTHeader_signature(f, lfanew_offset(dh.val)), LAMBDA sg :
    and_then(FileHeader_parse(f, sg.pos), LAMBDA fh :
    and_then(OptionalHeaderMagic_parse(f, fh.pos), LAMBDA m :
    and_then(OptionalHeader_parse(f, m.pos, m.val), LAMBDA oh :
    and_then(Sections_parse(f, oh.pos, fh.val.num_of_sections), LAMBDA ss :
    Ok(ss.pos, [file_header |-> fh.val,
                optional_header |-> oh.val,
                sections |-> ss.val])))))))

\* PE::parse as one function of the buffer: the header, the imports and
\* the export of the directories the optional header lists
PE_parse(f) ==
    and_then(PEHeader_parse(f), LAMBDA h :
    and_then(match(find_directory_by_entry(h.val.optional_header, "Import"), Ok(0, None),
                   LAMBDA dir : and_then(Imports_parse(f, dir, h.val.sections),
                                         LAMBDA r : Ok(0, Some(r.val)))), LAMBDA im :
    and_then(match(find_directory_by_entry(h.val.optional_header, "Export"), Ok(0, None),
                   LAMBDA dir : ExportDirectoryTable_parse(f, dir, h.val.sections)), LAMBDA ex :
    Ok(h.pos, [header |-> h.val, imports |-> im.val, export |-> ex.val]))))

Next ==
    \/ ParseDosHeader
    \/ ParseSignature
    \/ ParseFileHeader
    \/ ParseOptionalHeaderMagic
    \/ ParseOptionalHeader
    \/ ParseSections
    \/ ParseImports
    \/ ParseExport
    \/ ReturnImage

----------------------------------------------------------------------------
(* The input buffers.  An image is laid out as the decoder reads it: the   *)
(* DOS header, the NT signature, the COFF header, the optional header with *)
(* its directories, the section table, then the data the directories point *)
(* to: a DLL name, an import lookup table, a hint/name entry, an export    *)
(* directory and, last, the import descriptors.                            *)

MaxSections == 2       \* sections in a generated image
MaxDescriptors == 2    \* import descriptors in a generated image

Le16(v) == <<v % 256, v \div 256>>
Le32(u) == Le16(u[2]) \o Le16(u[1])
Zeros(n) == [k \in 1..n |-> 0]
\* n bytes, none of them zero, each distinct from its neighbours
Pattern(n) == [k \in 1..n |-> k]

DosBytes(mz, lfanew) == mz \o Zeros(58) \o Le32(lfanew) \o Zeros(64)

CoffBytes(sig, machine, nsec, ts, optsize) ==
    sig \o Le16(machine) \o Le16(nsec) \o Le32(ts) \o Zeros(8) \o Le16(optsize) \o Le16(\h0102)

\* the scalar fields of the optional header after the magic, up to the
\* directory count: 90 bytes in the 32-bit layout, 106 in the 64-bit one
OptionalBytes(optmagic, ndirs) ==
    Le16(optmagic) \o Pattern(IF optmagic = Pe32Plus THEN 106 ELSE 90) \o Le32(ndirs)

\* the directory entries present: as many as declared, 16 at most
DirsPresent(ndirs) == IF ndirs[1] > 0 \/ ndirs[2] > 16 THEN 16 ELSE ndirs[2]

\* section k of an image: its virtual address is 0x1000 * (k - 1) above va
\* (the table lists the sections by ascending address, or by descending
\* address in a scenario with rev)
SectionBytes(k, name, va, ptr) ==
    name \o Le32(U32(0, \h1000)) \o Le32(U32WrappingAdd(va, U32(0, \h1000 * (k - 1))))
         \o Le32(U32(0, \h200)) \o Le32(ptr) \o Zeros(12) \o Le32(U32(\h6000, \h20))

\* the offset of the data that follows the section table
DataOffset(s) ==
    DosHeaderSize + 24 + (IF s.optmagic = Pe32Plus THEN 112 ELSE 96)
        + 8 * DirsPresent(s.ndirs) + 40 * s.nsec

\* ptr_to_raw_data of the sections: the data area, the start of the file,
\* an offset beyond the file, the largest u32
PtrOf(s) ==
    CASE s.ptr = "data" -> U32(0, DataOffset(s))
      [] s.ptr = "zero" -> U32Zero
      [] s.ptr = "beyond" -> U32(0, \hFFF0)
      [] s.ptr = "max" -> U32(\hFFFF, \hFFFF)

\* the RVA that the first section translates to file offset off
RvaOf(s, off) ==
    IF AsUsizeLe(PtrOf(s), off) THEN U32WrappingAdd(s.va, U32(0, off - PtrOf(s)[2]))
    ELSE U32WrappingAdd(s.va, U32(0, off))

\* the RVA of a directory: its table, the end of the import descriptors,
\* an address below 0x1000, the largest u32, its table 0x1000 higher
DirRva(s, at, table) ==
    CASE at = "table" -> RvaOf(s, DataOffset(s) + table)
      [] at = "end" -> RvaOf(s, DataOffset(s) + 60 + 20 * s.ndesc)
      [] at = "low" -> U32(0, 1)
      [] at = "max" -> U32(\hFFFF, \hFFFF)
      [] at = "high" -> U32WrappingAdd(RvaOf(s, DataOffset(s) + table), U32(0, \h1000))

DirBytes(s, k) ==
    CASE k = 1 -> Le32(DirRva(s, s.exp, 20)) \o Le32(U32(0, 40))
      [] k = 2 -> Le32(DirRva(s, s.imp, 60)) \o Le32(U32(0, 40))
      [] OTHER -> Zeros(8)

RECURSIVE DirsBytes(_, _)
DirsBytes(s, k) ==
    IF k > DirsPresent(s.ndirs) THEN <<>> ELSE DirBytes(s, k) \o DirsBytes(s, k + 1)

RECURSIVE SectionsBytes(_, _)
SectionsBytes(s, k) ==
    IF k > s.nsec THEN <<>>
    ELSE SectionBytes(IF s.rev THEN s.nsec + 1 - k ELSE k, s.name, s.va, PtrOf(s))
         \o SectionsBytes(s, k + 1)

\* one import descriptor.  "full": its lookup table at D + 4, its DLL name
\* at D.  "bare": its five fields are 1.  "partial": only its last field is
\* not zero.  "far": its DLL name is 0xF000 into the section, past the end
\* of the buffer.  "open": its DLL name is the last field of the last
\* descriptor, four bytes that are not zero.
DescriptorBytes(s, kind) ==
    CASE kind = "full" ->
           Le32(RvaOf(s, DataOffset(s) + 4)) \o Le32(U32(0, 1)) \o Le32(U32(0, 1))
           \o Le32(RvaOf(s, DataOffset(s))) \o Le32(RvaOf(s, DataOffset(s) + 4))
      [] kind = "bare" ->
           Le32(U32(0, 1)) \o Le32(U32(0, 1)) \o Le32(U32(0, 1))
           \o Le32(U32(0, 1)) \o Le32(U32(0, 1))
      [] kind = "partial" ->
           Zeros(16) \o Le32(U32(0, 1))
      [] kind = "far" ->
           Zeros(12) \o Le32(U32WrappingAdd(s.va, U32(0, \hF000))) \o Zeros(4)
      [] kind = "open" ->
           Zeros(12) \o Le32(RvaOf(s, DataOffset(s) + 60 + 20 * s.ndesc - 4))
           \o Le32(U32(\h0101, \h0101))

\* the 20 bytes that ImportDescriptor::parse reads a descriptor's five fields from
ImportDescriptor_bytes(d) ==
    Le32(d.original_first_thunk) \o Le32(d.time_date_stamp) \o Le32(d.forwarder_chain)
        \o Le32(d.name_rva) \o Le32(d.first_thunk)

\* the 32 bytes that Section::parse reads the fields after the name from
Section_bytes(section) ==
    Le32(section.vir_size) \o Le32(section.vir_addr) \o Le32(section.size_of_raw_data)
        \o Le32(section.ptr_to_raw_data) \o Le32(section.ptr_to_relocs)
        \o Le32(section.ptr_to_line_nums) \o Le16(section.num_of_relocs)
        \o Le16(section.num_of_line_nums) \o Le32(section.characteristics)

RECURSIVE DescriptorsBytes(_, _)
DescriptorsBytes(s, k) ==
    IF k > s.ndesc THEN <<>> ELSE DescriptorBytes(s, s.desc) \o DescriptorsBytes(s, k + 1)

DataBytes(s) ==
    \* D + 0: the DLL name "k.d"
    <<\h6B, \h2E, \h64, 0>>
    \* D + 4: the lookup table: a hint/name RVA, an ordinal, the end (or not)
    \o Le32(RvaOf(s, DataOffset(s) + 16)) \o Le32(U32(\h8000, 5))
    \o (IF s.ilt = "ended" THEN Zeros(4) ELSE Le32(RvaOf(s, DataOffset(s) + 16)))
    \* D + 16: hint 0x0101, name "f"
    \o <<1, 1, \h66, 0>>
    \* D + 20: the export directory, 40 bytes
    \o Pattern(4) \o Le32(s.ts) \o Pattern(32)
    \* D + 60: the import descriptors, and the all-zero one that ends them
    \o DescriptorsBytes(s, 1)
    \o (IF s.term THEN Zeros(20) ELSE <<>>)

Image(s) ==
    DosBytes(s.mz, s.lfanew)
    \o CoffBytes(s.sig, s.machine, s.nsec, s.ts, s.optsize)
    \o OptionalBytes(s.optmagic, s.ndirs)
    \o DirsBytes(s, 1)
    \o SectionsBytes(s, 1)
    \o DataBytes(s)

\* a well-formed 32-bit image: one section at 0x1000 whose raw data is the
\* data area, one import descriptor, an export directory
Plain ==
    [mz |-> DosHeader_MAGIC, lfanew |-> "nt", sig |-> NTHeader_SIGNAUTRE,
     machine |-> \h14c, nsec |-> 1, ts |-> U32(\h5000, \h1234), optsize |-> 224,
     optmagic |-> Pe32, ndirs |-> U32(0, 2), exp |-> "table", imp |-> "table",
     name |-> <<\h2E, \h74, \h65, \h78, \h74, 0, 0, 0>>,
     va |-> U32(0, \h1000), ptr |-> "data",
     ilt |-> "ended", ndesc |-> 1, desc |-> "full", term |-> TRUE, rev |-> FALSE]

\* e_lfanew: the NT header, the DOS header itself, the end of the buffer,
\* one byte past it, far past it
LfanewOf(at, len) ==
    CASE at = "nt" -> U32(0, DosHeaderSize)
      [] at = "dos" -> U32Zero
      [] at = "end" -> U32(0, len)
      [] at = "past" -> U32(0, len + 1)
      [] at = "max" -> U32(\hFFFF, \hFFFF)

\* the buffer of scenario s: the first cut bytes of its image
Buffer(s, cut) ==
    LET img == Image([s EXCEPT !.lfanew = LfanewOf(s.lfanew, 0)])
        len == IF cut < Len(img) THEN cut ELSE Len(img)
    IN  SubSeq(Image([s EXCEPT !.lfanew = LfanewOf(s.lfanew, len)]), 1, len)

Whole == W16 - 1

\* every prefix of a well-formed image, 32-bit and 64-bit, and of one
\* whose DOS magic is wrong
Truncated ==
    { <<s, cut>> : s \in { Plain, [Plain EXCEPT !.optmagic = Pe32Plus] },
                   cut \in 0..Len(Image([Plain EXCEPT !.optmagic = Pe32Plus, !.lfanew = U32Zero])) }
    \cup { <<[Plain EXCEPT !.mz = mz], cut>> :
              mz \in { <<\h5a, \h4d>>, <<\h4d, 0>>, <<0, \h5a>>, <<\h4d, \h5b>> },
              cut \in 0..(DosHeaderSize + 2) }

\* the header fields varied over a whole image
Headers ==
    { <<[Plain EXCEPT !.lfanew = lf, !.machine = m, !.optmagic = om,
                      !.ndirs = nd, !.nsec = ns], Whole>> :
        lf \in {"nt", "dos", "end", "past", "max"},
        m \in {\h14c, \h0, \h9041, \h1234},
        om \in {Pe32, Pe32Plus, Rom, \h0, \h10c},
        nd \in {U32(0, 0), U32(0, 1), U32(0, 2), U32(0, 16), U32(0, 17), U32(\hFFFF, \hFFFF)},
        ns \in 0..MaxSections }

\* the sections and the directories' targets varied over a whole image
Directories ==
    { <<[Plain EXCEPT !.va = va, !.ptr = ptr, !.imp = imp, !.exp = exp,
                      !.ndesc = nd, !.desc = d, !.term = t, !.ilt = ilt], Whole>> :
        va \in {U32Zero, U32(0, \h1000)},
        ptr \in {"data", "zero", "beyond", "max"},
        imp \in {"table", "end", "low", "max"},
        exp \in {"table", "end", "low"},
        nd \in 0..MaxDescriptors,
        d \in {"full", "bare", "partial", "far", "open"},
        t \in BOOLEAN,
        ilt \in {"ended", "open"} }

\* the TimeDateStamp of the file header and of the export directory at the
\* edges of the 32-bit range, over a whole image
Timestamps ==
    { <<[Plain EXCEPT !.ts = ts], Whole>> :
        ts \in { U32Zero, U32(0, 1), U32(\h7FFF, \hFFFF), U32(\h8000, 0),
                 U32(\hFFFF, \hFFFF) } }

\* two sections over the same raw data, listed by ascending or descending
\* virtual address, the import directory in the lower or the higher one
Reversed ==
    { <<[Plain EXCEPT !.nsec = 2, !.rev = rev, !.imp = imp, !.desc = d], Whole>> :
        rev \in BOOLEAN,
        imp \in {"table", "high"},
        d \in {"full", "bare", "partial"} }

\* SizeOfOptionalHeader: nothing, the size of the optional header that is
\* there, the size of a full 32-bit and 64-bit one, the largest; over a
\* whole image of one or two sections, 32-bit and 64-bit
SizesOfOptionalHeader ==
    { <<[Plain EXCEPT !.optsize = sz, !.optmagic = om, !.nsec = ns], Whole>> :
        sz \in {0, 112, 128, 224, 240, W16 - 1},
        om \in {Pe32, Pe32Plus},
        ns \in 1..2 }

\* the buffer f with SizeOfOptionalHeader, the 2 bytes at 20 from the
\* signature at lfanew, set to v
with_size_of_optional_header(f, lfanew, v) ==
    [k \in 1..Len(f) |-> IF k = lfanew + 21 THEN v % 256
                         ELSE IF k = lfanew + 22 THEN v \div 256
                         ELSE f[k]]

\* before PE::parse has read anything
Fresh ==
    /\ i = 0
    /\ dos_header = <<>>
    /\ file_header = <<>>
    /\ magic = 0
    /\ optional_header = <<>>
    /\ sections = <<>>
    /\ imports = None
    /\ export = None
    /\ outcome = "running"
    /\ errors = <<>>
    /\ visited = <<>>
    /\ ret = <<>>

Init ==
    /\ \/ \E sc \in Truncated : file = Buffer(sc[1], sc[2])
       \/ \E sc \in Headers : file = Buffer(sc[1], sc[2])
       \/ \E sc \in Directories : file = Buffer(sc[1], sc[2])
       \/ \E sc \in Timestamps : file = Buffer(sc[1], sc[2])
       \/ \E sc \in Reversed : file = Buffer(sc[1], sc[2])
       \/ \E sc \in SizesOfOptionalHeader : file = Buffer(sc[1], sc[2])
    /\ overflow_checks \in BOOLEAN
    /\ pc = "dos"
    /\ arg = <<>>
    /\ Fresh

Spec == Init /\ [][Next]_vars

----------------------------------------------------------------------------
(* Section::rva_to_offset on its own: a section and an rva drawn from the   *)
(* edges of the 32-bit range, in both builds.                              *)

U32Edges ==
    { U32Zero, U32(0, 1), U32(0, \h400), U32(0, \hFFF), U32(0, \h1000), U32(0, \h1010),
      U32(\h7FFF, \hFFFF), U32(\h8000, 0), U32(\hFFFF, \hFFFF) }

InitRvaToOffset ==
    /\ arg \in [section : [vir_addr : U32Edges, ptr_to_raw_data : U32Edges], rva : U32Edges]
    /\ overflow_checks \in BOOLEAN
    /\ pc = "rva_to_offset"
    /\ file = <<>>
    /\ Fresh

CallRvaToOffset ==
    /\ pc = "rva_to_offset"
    /\ ret' = rva_to_offset(arg.section, arg.rva)
    /\ pc' = "returned"
    /\ UNCHANGED <<file, overflow_checks, i, dos_header, file_header, magic,
                   optional_header, sections, imports, export, outcome, errors,
                   visited, arg>>

NextRvaToOffset == CallRvaToOffset

SpecRvaToOffset == InitRvaToOffset /\ [][NextRvaToOffset]_vars

----------------------------------------------------------------------------
(* Sections::find_by_address on its own: section tables of up to           *)
(* MaxSections sections, in any order of their virtual addresses, and an    *)
(* rva below, inside, between and beyond their ranges.                      *)

LookupSections ==
    [vir_addr : {U32(0, \h1000), U32(0, \h2000), U32(0, \h3000)},
     vir_size : {U32(0, \h400), U32(0, \h1000)},
     ptr_to_raw_data : {U32(0, \h200), U32(0, \h400)}]

LookupTables == UNION { [1..n -> LookupSections] : n \in 0..MaxSections }

LookupRvas ==
    { U32Zero, U32(0, \h1000), U32(0, \h13FF), U32(0, \h1400), U32(0, \h2000),
      U32(0, \h2010), U32(0, \h4000), U32(\hFFFF, \hFFFF) }

InitFindByAddress ==
    /\ arg \in [secs : LookupTables, rva : LookupRvas]
    /\ overflow_checks = TRUE
    /\ pc = "find_by_address"
    /\ file = <<>>
    /\ Fresh

CallFindByAddress ==
    /\ pc = "find_by_address"
    /\ ret' = find_by_address(arg.secs, arg.rva)
    /\ pc' = "returned"
    /\ UNCHANGED <<file, overflow_checks, i, dos_header, file_header, magic,
                   optional_header, sections, imports, export, outcome, errors,
                   visited, arg>>

NextFindByAddress == CallFindByAddress

SpecFindByAddress == InitFindByAddress /\ [][NextFindByAddress]_vars

----------------------------------------------------------------------------
(* The name of a section on its own: every 8-byte field over NameBytes     *)
(* (NUL, an ASCII letter, a lead byte that nothing continues), and a few   *)
(* more: ".text", a two-byte character, an overlong and a stray byte.      *)

NameBytes == {0, \h61, \hC3}

NameFields ==
    [1..8 -> NameBytes]
    \cup { <<\h2E, \h74, \h65, \h78, \h74, 0, 0, 0>>,
            <<\hC3, \hA9, 0, 0, 0, 0, 0, 0>>,
            <<\h61, 0, \h62, 0, 0, 0, 0, 0>>,
            <<\hC0, \h80, \hFF, \hE2, \h82, \hAC, \hF0, \h9F>> }

InitSectionName ==
    /\ arg \in NameFields
    /\ overflow_checks = TRUE
    /\ pc = "section_name"
    /\ file = <<>>
    /\ Fresh

CallSectionName ==
    /\ pc = "section_name"
    /\ ret' = Section_name(arg)
    /\ pc' = "returned"
    /\ UNCHANGED <<file, overflow_checks, i, dos_header, file_header, magic,
                   optional_header, sections, imports, export, outcome, errors,
                   visited, arg>>

NextSectionName == CallSectionName

SpecSectionName == InitSectionName /\ [][NextSectionName]_vars

----------------------------------------------------------------------------
(* The claims.                                                             *)

\* C1: for every buffer PE::parse returns an image or an error; no step
\* aborts by indexing past the end of the buffer.  Refuted: e_lfanew one
\* past the end of the buffer makes &pe_file[lfanew..] panic.
C1_NeverAborts == outcome # "abort"

\* C2, as amended: every buffer shorter than the DOS header fails with an
\* error and no abort; the error is Nom(Eof) (Truncation) when the buffer
\* begins with 4D 5A and Nom(Tag) (TagMismatch) when it does not, the empty
\* and the 1-byte buffer included.
C2_ShortBufferFails ==
    (Len(file) < DosHeaderSize /\ pc # "dos") =>
        /\ pc = "done"
        /\ outcome = "err"
        /\ errors[1].reason =
               IF Len(file) >= 2 /\ SubSeq(file, 1, 2) = DosHeader_MAGIC
               THEN Nom("Eof") ELSE Nom("Tag")

\* C2 reached: the 1-byte buffer and the empty one have failed
C2_Witness == Len(file) <= 1 /\ pc = "done" /\ outcome = "err"

\* C2 as stated: every buffer shorter than the DOS header fails with
\* Nom(Eof) (Truncation)
C2_AlwaysTruncation ==
    (Len(file) < DosHeaderSize /\ pc # "dos") =>
        (outcome = "err" /\ errors[1].reason = Nom("Eof"))

\* C3: a buffer whose first two bytes are not 4D 5A fails with Nom(Tag)
\* raised by the magic read at offset 0: the trail holds that failure and
\* the context "magic" only, and no stage after the DOS header has run.
C3_MagicTagMismatch ==
    (Len(file) >= 2 /\ SubSeq(file, 1, 2) # DosHeader_MAGIC /\ pc # "dos") =>
        /\ pc = "done"
        /\ outcome = "err"
        /\ errors = << [at |-> 0, reason |-> Nom("Tag")],
                       [at |-> 0, reason |-> Context("magic")] >>
        /\ visited = <<"dos">>
        /\ dos_header = <<>>

\* C3 reached: a buffer as long as a DOS header, with another magic, has failed
C3_Witness ==
    /\ Len(file) >= DosHeaderSize
    /\ SubSeq(file, 1, 2) # DosHeader_MAGIC
    /\ pc = "done"
    /\ outcome = "err"

\* C5: rva_to_offset(rva) is rva - vir_addr + ptr_to_raw_data when
\* rva >= vir_addr (the result less ptr_to_raw_data is rva - vir_addr, and
\* the result is not below ptr_to_raw_data), absent when rva < vir_addr.
\* Refuted: the sum can pass 2^32; the call then panics or wraps.
C5_Translation ==
    pc = "returned" =>
        IF U32Ge(arg.rva, arg.section.vir_addr)
        THEN /\ ret.ok
             /\ ret.val.some
             /\ U32Ge(ret.val.val, arg.section.ptr_to_raw_data)
             /\ U32Sub(ret.val.val, arg.section.ptr_to_raw_data)
                    = U32Sub(arg.rva, arg.section.vir_addr)
        ELSE ret = Ok(0, None)

\* C6, as amended: the magic read selects the layout.  0x20B gives the
\* 64-bit variant, image_base the 8 bytes at offset 22 of the header body,
\* little-endian; 0x10B the 32-bit variant, image_base the 4 bytes at offset
\* 26.  ROM (0x107) fails with a String error (SemanticRejection) at the
\* first byte after the magic; every other value fails with Nom(MapRes)
\* (UnknownEnumeration) at the magic itself.  Neither failure reads a byte
\* of the header body.
C6_MagicSelectsLayout ==
    [][ /\ (pc = "magic" /\ pc' = "optional_header") =>
               /\ magic' = Byte(file, i) + 256 * Byte(file, i + 1)
               /\ magic' \in {\h10b, \h20b, \h107}
               /\ i' = i + 2
        /\ (pc = "magic" /\ Remaining(file, i) >= 2
              /\ Byte(file, i) + 256 * Byte(file, i + 1) \notin {\h10b, \h20b, \h107}) =>
               /\ outcome' = "err"
               /\ errors' = <<[at |-> i, reason |-> Nom("MapRes")]>>
        /\ (pc = "optional_header" /\ magic = \h107) =>
               /\ outcome' = "err"
               /\ errors' = <<[at |-> i, reason |-> String("ROM Images are not supported")]>>
        /\ (pc = "optional_header" /\ pc' = "sections" /\ magic = \h20b) =>
               /\ optional_header'.variant = "Op64"
               /\ optional_header'.fields.image_base
                      = << U32(Byte(file, i + 28) + 256 * Byte(file, i + 29),
                               Byte(file, i + 26) + 256 * Byte(file, i + 27)),
                           U32(Byte(file, i + 24) + 256 * Byte(file, i + 25),
                               Byte(file, i + 22) + 256 * Byte(file, i + 23)) >>
        /\ (pc = "optional_header" /\ pc' = "sections" /\ magic = \h10b) =>
               /\ optional_header'.variant = "Op32"
               /\ optional_header'.fields.image_base
                      = U32(Byte(file, i + 28) + 256 * Byte(file, i + 29),
                            Byte(file, i + 26) + 256 * Byte(file, i + 27))
      ]_vars

\* C6 reached: a magic outside the three known values has been rejected
C6_Witness ==
    /\ pc = "done"
    /\ visited # <<>>
    /\ visited[Len(visited)] = "magic"
    /\ Remaining(file, i) >= 2
    /\ errors = <<[at |-> i, reason |-> Nom("MapRes")]>>

\* C6 as stated: every magic other than 0x20B and 0x10B fails with a String
\* error (SemanticRejection)
C6_AlwaysSemanticRejection ==
    (pc = "done" /\ visited # <<>> /\ visited[Len(visited)] = "magic"
       /\ Remaining(file, i) >= 2) =>
        (outcome = "err" /\ errors[1].reason.tag = "String")

\* C7: when the import directory resolves to an offset where the buffer
\* holds 20 zero bytes, the import decode succeeds with no descriptor,
\* whatever vir_addr and ptr_to_raw_data of the section are.  Refuted: the
\* all-zero descriptor is decoded in full before it is tested, its name and
\* its lookup table through RVA 0.
C7_TerminatorOnly ==
    (/\ visited # <<>>
     /\ visited[Len(visited)] = "imports"
     /\ \E o \in 0..(Len(file) - 20) :
           /\ Slice(file, o, 20) = Zeros(20)
           /\ match(find_by_address(sections,
                        find_directory_by_entry(optional_header, "Import").val.virtual_address),
                    FALSE,
                    LAMBDA section :
                        rva_to_offset(section,
                            find_directory_by_entry(optional_header, "Import").val.virtual_address)
                        = Ok(0, Some(U32(0, o)))))
    => imports = Some([directory_table |-> <<>>])

\* C8: with number_of_rva_and_sizes = 0 the table is empty, every kind is
\* absent from it, no import or export decoding is attempted, and imports
\* and export stay absent up to the image returned.
C8_NoDirectories ==
    (optional_header # <<>>
       /\ optional_header.fields.number_of_rva_and_sizes = U32Zero) =>
        /\ optional_header.data_directories = <<>>
        /\ \A k \in 1..Len(DirectoryEntry) :
               find_directory_by_entry(optional_header, DirectoryEntry[k]) = None
        /\ \A k \in 1..Len(visited) : visited[k] \notin {"imports", "export"}
        /\ imports = None
        /\ export = None

\* C8 reached: an image with no directory has been returned
C8_Witness ==
    /\ outcome = "ok"
    /\ optional_header.fields.number_of_rva_and_sizes = U32Zero
    /\ Len(sections) > 0

\* C9: no NUL appears in the name decoded from the 8 name bytes (the name
\* ends at the first NUL).  Refuted: only the NULs at the end are removed.
C9_NoNulInName ==
    pc = "returned" => \A k \in 1..Len(ret) : ret[k] # 0

\* C10: a parsed table has exactly number_of_rva_and_sizes entries, 16 at
\* most, the entry at index k of kind k; the optional header never aborts,
\* and a count above 16 over a buffer that holds 16 entries fails with the
\* "unknown image directory" error at the end of the 16th.
C10_TableShape ==
    /\ optional_header # <<>> =>
           /\ optional_header.fields.number_of_rva_and_sizes[1] = 0
           /\ Len(optional_header.data_directories)
                  = optional_header.fields.number_of_rva_and_sizes[2]
           /\ Len(optional_header.data_directories) <= 16
           /\ \A k \in 1..Len(optional_header.data_directories) :
                  /\ optional_header.data_directories[k].entry = DirectoryEntry[k]
                  /\ DirectoryEntry_value(optional_header.data_directories[k].entry) = k - 1
    /\ (pc = "done" /\ visited # <<>> /\ visited[Len(visited)] = "optional_header") =>
           /\ outcome = "err"
           /\ optional_header = <<>>
           /\ (magic = \h10b /\ Remaining(file, i) >= 94 + 128
                 /\ (Byte(file, i + 92) + Byte(file, i + 93) > 0 \/ Byte(file, i + 91) > 0
                       \/ Byte(file, i + 90) > 16)) =>
                  errors = <<[at |-> i + 94 + 128,
                              reason |-> String("unknown image directory")]>>

\* C10 reached: a table of 16 entries has been parsed
C10_Witness ==
    /\ optional_header # <<>>
    /\ Len(optional_header.data_directories) = 16

\* C11: the lookup of a directory kind is absent exactly when the index of
\* the kind is at or past the number of directories present; otherwise it
\* is the entry stored at that index, whose kind is the one asked for.  It
\* is defined (no failure, no index out of range) for each of the 16 kinds.
C11_FindByEntry ==
    optional_header # <<>> =>
        \A k \in 1..Len(DirectoryEntry) :
            \E found \in {find_directory_by_entry(optional_header, DirectoryEntry[k])} :
                /\ found \in {None} \cup {Some(d) : d \in {optional_header.data_directories[j] :
                                              j \in 1..Len(optional_header.data_directories)}}
                /\ (found = None) <=> (DirectoryEntry_value(DirectoryEntry[k])
                                          >= Len(optional_header.data_directories))
                /\ found # None =>
                       /\ found.val = optional_header.data_directories[k]
                       /\ found.val.entry = DirectoryEntry[k]

\* C11 reached: a table of one entry, where Export is found and Import is absent
C11_Witness ==
    /\ optional_header # <<>>
    /\ Len(optional_header.data_directories) = 1
    /\ find_directory_by_entry(optional_header, "Export").some
    /\ ~find_directory_by_entry(optional_header, "Import").some

\* C12: the machine code read at the start of the file header is accepted
\* only when it is one of the enumerated codes: 0x0000 (Unknown) and 0x9041
\* (M32R) are accepted and kept as the header's machine, and every other
\* 16-bit value, 0x1234 among them, fails the whole decode at that field
\* with the unknown-enumeration error.
C12_MachineEnumerated ==
    [][(pc = "file_header" /\ Remaining(file, i) >= 2) =>
          \E v \in {Byte(file, i) + 256 * Byte(file, i + 1)} :
              /\ v \notin Machine =>
                     /\ outcome' = "err"
                     /\ pc' = "done"
                     /\ errors' = <<[at |-> i, reason |-> Nom("MapRes")]>>
                     /\ file_header' = <<>>
              /\ v = \h1234 => outcome' = "err"
              /\ (v \in Machine /\ Remaining(file, i) >= 20) =>
                     /\ outcome' = "running"
                     /\ file_header'.machine = v
              /\ (v \in {\h0, \h9041} /\ Remaining(file, i) >= 20) =>
                     /\ pc' = "magic"
                     /\ file_header'.machine = v
      ]_vars

\* C12 reached: the decode of a buffer whose machine code is 0x1234 has
\* failed at the file header
C12_Witness ==
    /\ pc = "done"
    /\ outcome = "err"
    /\ visited[Len(visited)] = "file_header"
    /\ Remaining(file, i) >= 2
    /\ Byte(file, i) + 256 * Byte(file, i + 1) = \h1234
    /\ errors[1].reason = Nom("MapRes")

\* C13: when the import directory resolves to a section and the import
\* stage succeeds, the descriptor list is exactly the 20-byte descriptors
\* laid out from the resolved offset in the whole buffer, in order, up to
\* and excluding the first all-zero one: each listed descriptor has a
\* non-zero field, and the 20 bytes after the last listed one are all zero.
C13_DescriptorList ==
    imports.some =>
        \E o \in {directory_offset(file, sections,
                      find_directory_by_entry(optional_header, "Import").val.virtual_address)} :
            o.some =>
                /\ \A k \in 1..Len(imports.val.directory_table) :
                       /\ Remaining(file, o.val + 20 * (k - 1)) >= 20
                       /\ Slice(file, o.val + 20 * (k - 1), 20)
                              = ImportDescriptor_bytes(imports.val.directory_table[k])
                       /\ Slice(file, o.val + 20 * (k - 1), 20) # Zeros(20)
                /\ Remaining(file, o.val + 20 * Len(imports.val.directory_table)) >= 20
                /\ Slice(file, o.val + 20 * Len(imports.val.directory_table), 20) = Zeros(20)

\* C13 reached: two descriptors listed, the first with four zero fields
C13_Witness ==
    /\ imports.some
    /\ Len(imports.val.directory_table) = 2
    /\ imports.val.directory_table[1].original_first_thunk = U32Zero
    /\ imports.val.directory_table[1].name_rva = U32Zero
    /\ directory_offset(file, sections,
           find_directory_by_entry(optional_header, "Import").val.virtual_address).some
    /\ outcome = "ok"

\* C14: the walk of the import descriptors ends on every buffer: when no
\* descriptor from the resolved offset on is all zero, the import stage
\* ends with the truncation error of the read that finds fewer than 20
\* bytes left.  Refuted: the walk can end in an abort instead.
C14_WalkEndsInTruncation ==
    (visited # <<>> /\ visited[Len(visited)] = "imports") =>
        \E o \in {directory_offset(file, sections,
                      find_directory_by_entry(optional_header, "Import").val.virtual_address)} :
            (/\ o.some
             /\ \A k \in 0..(Remaining(file, o.val) \div 20) :
                    Remaining(file, o.val + 20 * k) >= 20 =>
                        Slice(file, o.val + 20 * k, 20) # Zeros(20)) =>
                /\ pc = "done"
                /\ outcome = "err"
                /\ errors[1].reason = Nom("Eof")
                /\ Remaining(file, errors[1].at) < 20

\* C15: when the import lookup table of a descriptor has no zero entry from
\* its resolved offset to the end of the buffer, or its resolved offset is
\* beyond the buffer, the decode fails with a truncation error.  Refuted:
\* the read of the entry past the last whole one aborts.
C15_LookupTableTruncation ==
    (visited # <<>> /\ visited[Len(visited)] = "imports") =>
        \E rva \in {find_directory_by_entry(optional_header, "Import").val.virtual_address} :
        \E o \in {directory_offset(file, sections, rva)} :
            (o.some /\ Remaining(file, o.val) >= 20) =>
                \E t \in {rva_to_offset(find_by_address(sections, rva).val,
                                        le_u32(file, o.val).val)} :
                    (/\ t.ok
                     /\ t.val.some
                     /\ AsUsizeLe(t.val.val, Len(file)) =>
                            \A k \in 0..(Remaining(file, t.val.val[2]) \div 4) :
                                Remaining(file, t.val.val[2] + 4 * k) >= 4 =>
                                    le_u32(file, t.val.val[2] + 4 * k).val # U32Zero) =>
                        /\ outcome = "err"
                        /\ errors[1].reason = Nom("Eof")

\* C16: the DLL name of a descriptor is best-effort: when its RVA is below
\* the section's virtual address, or resolves beyond the buffer, or no NUL
\* follows the resolved offset, the name is the empty string and the decode
\* does not fail on it.  Refuted: the last two cases abort.
C16_NameBestEffort ==
    (visited # <<>> /\ visited[Len(visited)] = "imports") =>
        \E rva \in {find_directory_by_entry(optional_header, "Import").val.virtual_address} :
        \E o \in {directory_offset(file, sections, rva)} :
            (o.some /\ Remaining(file, o.val) >= 20) =>
                \E n \in {rva_to_offset(find_by_address(sections, rva).val,
                                        le_u32(file, o.val + 12).val)} :
                    (/\ n.ok
                     /\ \/ ~n.val.some
                        \/ ~AsUsizeLe(n.val.val, Len(file))
                        \/ position_nul(file, n.val.val[2]) >= Len(file)) =>
                        /\ outcome # "abort"
                        /\ (imports.some /\ Len(imports.val.directory_table) > 0) =>
                               imports.val.directory_table[1].name = <<>>

\* C17 as stated: when the import directory is present and no section holds
\* its RVA, imports is absent, the value it has when the entry is missing.
\* Refuted: imports is present, with an empty descriptor list.
C17_UnresolvedIsAbsent ==
    (/\ \E k \in 1..Len(visited) : visited[k] = "imports"
     /\ ~find_by_address(sections,
            find_directory_by_entry(optional_header, "Import").val.virtual_address).some) =>
        imports = None

\* C17 amended: a directory that is present and whose RVA no section holds
\* does not fail its stage.  For the export directory the export is absent,
\* as when the entry is missing; for the import directory imports is
\* present and its descriptor list is empty.
C17_UnresolvedDirectory ==
    /\ (/\ \E k \in 1..Len(visited) : visited[k] = "imports"
        /\ ~find_by_address(sections,
               find_directory_by_entry(optional_header, "Import").val.virtual_address).some) =>
           /\ imports = Some([directory_table |-> <<>>])
           /\ visited[Len(visited)] = "imports" => (outcome = "running" /\ pc = "export")
    /\ (/\ \E k \in 1..Len(visited) : visited[k] = "export"
        /\ ~find_by_address(sections,
               find_directory_by_entry(optional_header, "Export").val.virtual_address).some) =>
           /\ export = None
           /\ outcome \in {"running", "ok"}
           /\ pc \in {"build", "done"}

\* C17 reached: an image returned whose import and export directories are
\* both present and held by no section
C17_Witness ==
    /\ outcome = "ok"
    /\ Len(sections) > 0
    /\ \E k \in 1..Len(visited) : visited[k] = "imports"
    /\ \E k \in 1..Len(visited) : visited[k] = "export"
    /\ ~find_by_address(sections,
           find_directory_by_entry(optional_header, "Import").val.virtual_address).some
    /\ ~find_by_address(sections,
           find_directory_by_entry(optional_header, "Export").val.virtual_address).some
    /\ imports = Some([directory_table |-> <<>>])
    /\ export = None

\* C18: there is no partial image.  The stages run in the order header,
\* sections, imports, export; a step is taken only while no stage has
\* failed; a stage that returns an error ends the decode with that error,
\* so an error of the imports leaves the export undecoded; and the image is
\* returned only after the header and the sections were decoded and every
\* stage attempted succeeded.
C18_NoPartialImage ==
    [][/\ outcome = "running"
       /\ \/ visited' = visited
          \/ /\ Len(visited') = Len(visited) + 1
             /\ SubSeq(visited', 1, Len(visited)) = visited
             /\ visited # <<>> =>
                    StageIndex(visited'[Len(visited')]) > StageIndex(visited[Len(visited)])
       /\ outcome' = "err" =>
              /\ pc' = "done"
              /\ errors' # <<>>
              /\ pc = "imports" =>
                     /\ export' = None
                     /\ \A k \in 1..Len(visited') : visited'[k] # "export"
       /\ outcome' = "ok" =>
              /\ pc = "build"
              /\ errors' = <<>>
              /\ Len(visited) >= 6
              /\ SubSeq(visited, 1, 6) = SubSeq(Stages, 1, 6)
              /\ optional_header # <<>>
      ]_vars

\* C18 reached: the decode has failed with an error in the imports of a
\* buffer whose export directory is present and held by a section
C18_Witness ==
    /\ outcome = "err"
    /\ pc = "done"
    /\ visited[Len(visited)] = "imports"
    /\ find_directory_by_entry(optional_header, "Export").some
    /\ directory_offset(file, sections,
           find_directory_by_entry(optional_header, "Export").val.virtual_address).some
    /\ export = None

\* C19: the error trail only grows, outward.  A trail made at a failing
\* read (from_error_kind, from_string) has exactly one pair; append and
\* add_context applied to the trail of a decode give a trail one pair
\* longer, the new pair last and the earlier pairs unchanged in order; so
\* the first pair of the trail a decode returns is the failing read and
\* every later pair is a label of an enclosing reader.
C19_TrailGrowsOutward ==
    /\ \A input \in {0, i, Len(file)} :
           /\ from_error_kind(input, "Eof") = <<[at |-> input, reason |-> Nom("Eof")]>>
           /\ from_string(input, "wrong timestamp format")
                  = <<[at |-> input, reason |-> String("wrong timestamp format")]>>
           /\ Len(add_context(input, "Magic", errors)) = Len(errors) + 1
           /\ SubSeq(add_context(input, "Magic", errors), 1, Len(errors)) = errors
           /\ add_context(input, "Magic", errors)[Len(errors) + 1]
                  = [at |-> input, reason |-> Context("Magic")]
           /\ Len(append(input, "Tag", errors)) = Len(errors) + 1
           /\ SubSeq(append(input, "Tag", errors), 1, Len(errors)) = errors
           /\ append(input, "Tag", errors)[Len(errors) + 1]
                  = [at |-> input, reason |-> Nom("Tag")]
    /\ outcome = "err" =>
           /\ errors # <<>>
           /\ errors[1].reason.tag \in {"Nom", "String"}
           /\ \A k \in 2..Len(errors) : errors[k].reason.tag = "Context"

\* C19 reached: a decode has failed with a trail of two pairs, the
\* truncated read and then the label of the field
C19_Witness ==
    /\ outcome = "err"
    /\ Len(errors) = 2
    /\ errors[1].reason = Nom("Eof")
    /\ errors[2].reason.tag = "Context"

\* C20: when the export directory is present and a section holds its RVA,
\* the export is decoded from the 40 bytes at the resolved offset of the
\* buffer, 11 little-endian fields in order, and is present; when fewer
\* than 40 bytes are available from that offset the decode fails with a
\* truncation error.  Refuted: a resolved offset beyond the end of the
\* buffer aborts.
C20_ExportDecoded ==
    (visited # <<>> /\ visited[Len(visited)] = "export") =>
        \E rva \in {find_directory_by_entry(optional_header, "Export").val.virtual_address} :
            find_by_address(sections, rva).some =>
                \E t \in {rva_to_offset(find_by_address(sections, rva).val, rva)} :
                    (t.ok /\ t.val.some) =>
                        IF AsUsizeLe(t.val.val, Len(file)) /\ Remaining(file, t.val.val[2]) >= 40
                        THEN /\ export.some
                             /\ outcome \in {"running", "ok"}
                             /\ \E o \in {t.val.val[2]} :
                                    /\ Le32(export.val.characteristics) = Slice(file, o, 4)
                                    /\ \E dt \in {from_timestamp_opt(le_u32(file, o + 4).val)} :
                                           export.val.datetime = [days |-> dt.days, secs |-> dt.secs]
                                    /\ Le16(export.val.major_version) = Slice(file, o + 8, 2)
                                    /\ Le16(export.val.minor_version) = Slice(file, o + 10, 2)
                                    /\ Le32(export.val.name) = Slice(file, o + 12, 4)
                                    /\ Le32(export.val.base) = Slice(file, o + 16, 4)
                                    /\ Le32(export.val.num_of_funcs) = Slice(file, o + 20, 4)
                                    /\ Le32(export.val.num_of_names) = Slice(file, o + 24, 4)
                                    /\ Le32(export.val.addr_of_funcs) = Slice(file, o + 28, 4)
                                    /\ Le32(export.val.addr_of_names) = Slice(file, o + 32, 4)
                                    /\ Le32(export.val.addr_of_name_ordi) = Slice(file, o + 36, 4)
                        ELSE /\ outcome = "err"
                             /\ errors[1].reason = Nom("Eof")
                             /\ export = None

\* C21: every non-zero entry of a descriptor's lookup table before the zero
\* entry is in the descriptor's import list, an ordinal for an entry with
\* the high bit set and a (hint, name) for the others, so the list is as
\* long as the entries read.  Refuted: the entries with the high bit set
\* are dropped.
C21_EveryEntryDecoded ==
    imports.some =>
        \A k \in 1..Len(imports.val.directory_table) :
            \E ilt \in {read_import_lookup_table(file,
                            imports.val.directory_table[k].original_first_thunk,
                            find_by_address(sections,
                                find_directory_by_entry(optional_header, "Import").val.virtual_address).val)} :
                ilt.ok => Len(imports.val.directory_table[k].import_by_names) = Len(ilt.val)

\* C22: the lookup of a section by address is first-match-wins in table
\* order: it returns the earliest section of the table that qualifies for
\* the rva (its virtual address is not above the rva), never a later one,
\* and it is absent only when no section qualifies.
C22_FirstMatchWins ==
    pc = "returned" =>
        IF ret.some
        THEN \E k \in 1..Len(arg.secs) :
                 /\ ret.val = arg.secs[k]
                 /\ U32Ge(arg.rva, arg.secs[k].vir_addr)
                 /\ \A j \in 1..(k - 1) : ~U32Ge(arg.rva, arg.secs[j].vir_addr)
        ELSE \A k \in 1..Len(arg.secs) : ~U32Ge(arg.rva, arg.secs[k].vir_addr)

\* C22 reached: two distinct sections qualify and the first one is returned
C22_Witness ==
    /\ pc = "returned"
    /\ Len(arg.secs) = 2
    /\ arg.secs[1] # arg.secs[2]
    /\ U32Ge(arg.rva, arg.secs[1].vir_addr)
    /\ U32Ge(arg.rva, arg.secs[2].vir_addr)
    /\ ret = Some(arg.secs[1])

\* C23: an rva is resolved only through a section whose declared range
\* holds it, vir_addr <= rva < vir_addr + vir_size: the section found holds
\* the rva, an rva inside the range of a section is translated with that
\* section's vir_addr and ptr_to_raw_data, and an rva that no section's
\* range holds resolves to absent.  Refuted: no upper bound is checked.
C23_ContainingSection ==
    pc = "returned" =>
        /\ ret.some =>
               /\ U32Ge(arg.rva, ret.val.vir_addr)
               /\ ~U32Ge(arg.rva, U32WrappingAdd(ret.val.vir_addr, ret.val.vir_size))
        /\ \A k \in 1..Len(arg.secs) :
               (/\ U32Ge(arg.rva, arg.secs[k].vir_addr)
                /\ ~U32Ge(arg.rva, U32WrappingAdd(arg.secs[k].vir_addr, arg.secs[k].vir_size))
                /\ \A j \in 1..(k - 1) :
                       U32Ge(arg.secs[k].vir_addr,
                             U32WrappingAdd(arg.secs[j].vir_addr, arg.secs[j].vir_size))) =>
                   /\ ret.some
                   /\ rva_to_offset(ret.val, arg.rva) = rva_to_offset(arg.secs[k], arg.rva)
        /\ (\A k \in 1..Len(arg.secs) :
                \/ ~U32Ge(arg.rva, arg.secs[k].vir_addr)
                \/ U32Ge(arg.rva, U32WrappingAdd(arg.secs[k].vir_addr, arg.secs[k].vir_size))) =>
               ret = None

\* C24 as stated: the 32-bit and the 64-bit optional-header readers read
\* the same fields in the same order, so a header decoded by either has the
\* same fields.  Refuted: BaseOfData is read by the 32-bit reader only.
C24_SameFields ==
    optional_header # <<>> =>
        DOMAIN optional_header.fields
            = {"magic"} \cup {OptionalHeader64_readers[k].field :
                                 k \in 1..Len(OptionalHeader64_readers)}

\* C24 amended: without BaseOfData, which the 32-bit reader alone reads
\* (after BaseOfCode), the two readers read the same fields under the same
\* labels in the same order, and differ only in image_base and the four
\* stack/heap reserve/commit sizes, 4 bytes wide in one and 8 in the other.
\* A decoded header holds the fields of its reader, BaseOfData and
\* ImageBase taken from the bytes at their place in that layout.
C24_SameFieldsButBaseOfData ==
    /\ \E r32 \in {SelectSeq(OptionalHeader32_readers, LAMBDA r : r.field # "base_of_data")} :
           /\ Len(OptionalHeader32_readers) = Len(r32) + 1
           /\ OptionalHeader32_readers[8].field = "base_of_data"
           /\ Len(r32) = Len(OptionalHeader64_readers)
           /\ \A k \in 1..Len(r32) :
                  /\ r32[k].field = OptionalHeader64_readers[k].field
                  /\ r32[k].ctx = OptionalHeader64_readers[k].ctx
                  /\ IF r32[k].field \in {"image_base", "size_of_stack_reserve",
                                          "size_of_stack_commit", "size_of_heap_reserve",
                                          "size_of_heap_commit"}
                     THEN r32[k].p = "le_u32" /\ OptionalHeader64_readers[k].p = "le_u64"
                     ELSE r32[k].p = OptionalHeader64_readers[k].p
    /\ optional_header # <<>> =>
           IF optional_header.variant = "Op32"
           THEN \E p \in {i - 8 * Len(optional_header.data_directories)
                            - ReadersSize(OptionalHeader32_readers, 1)} :
                    /\ DOMAIN optional_header.fields
                           = {"magic"} \cup {OptionalHeader32_readers[k].field :
                                                k \in 1..Len(OptionalHeader32_readers)}
                    /\ Le32(optional_header.fields.base_of_data) = Slice(file, p + 22, 4)
                    /\ Le32(optional_header.fields.image_base) = Slice(file, p + 26, 4)
           ELSE \E p \in {i - 8 * Len(optional_header.data_directories)
                            - ReadersSize(OptionalHeader64_readers, 1)} :
                    /\ DOMAIN optional_header.fields
                           = {"magic"} \cup {OptionalHeader64_readers[k].field :
                                                k \in 1..Len(OptionalHeader64_readers)}
                    /\ "base_of_data" \notin DOMAIN optional_header.fields
                    /\ Le32(optional_header.fields.image_base[2])
                           \o Le32(optional_header.fields.image_base[1]) = Slice(file, p + 22, 8)

\* C24 reached: a 32-bit optional header has been decoded, BaseOfData in it
C24_Witness ==
    /\ optional_header # <<>>
    /\ optional_header.variant = "Op32"
    /\ "base_of_data" \in DOMAIN optional_header.fields
    /\ outcome = "ok"

\* C25: the section table is decoded exactly when 40 * num_of_sections
\* bytes are available at its position: then there are num_of_sections
\* records in file order, record k decoded from the 40 bytes at 40 * (k - 1)
\* from that position; with fewer bytes the decode fails with a truncation
\* error and there is no section list.
C25_SectionTable ==
    [][pc = "sections" =>
          IF Remaining(file, i) >= 40 * file_header.num_of_sections
          THEN /\ pc' = "imports"
               /\ outcome' = "running"
               /\ Len(sections') = file_header.num_of_sections
               /\ \A k \in 1..Len(sections') :
                      /\ sections'[k].name = Section_name(Slice(file, i + 40 * (k - 1), 8))
                      /\ Section_bytes(sections'[k]) = Slice(file, i + 40 * (k - 1) + 8, 32)
          ELSE /\ pc' = "done"
               /\ outcome' = "err"
               /\ errors'[1].reason = Nom("Eof")
               /\ Remaining(file, errors'[1].at) < 40
               /\ sections' = <<>>
      ]_vars

\* C25 reached: a table of two sections has been decoded
C25_Witness ==
    /\ Len(sections) = 2
    /\ file_header.num_of_sections = 2
    /\ sections[1].vir_addr # sections[2].vir_addr
    /\ outcome = "ok"

\* C26: the NT header is found only through e_lfanew: the signature is
\* matched at that offset of the whole buffer; the decode goes on when the
\* 4 bytes there are 50 45 00 00, fails with the tag mismatch at that offset
\* when they are not, and fails with an error when e_lfanew is at or beyond
\* the end of the buffer.  Refuted: an e_lfanew beyond the end aborts.
C26_SignatureAtLfanew ==
    Len(visited) >= 2 =>
        \E lfanew \in {lfanew_offset(dos_header)} :
            IF /\ AsUsizeLe(lfanew, Len(file))
               /\ Remaining(file, lfanew[2]) >= 4
               /\ Slice(file, lfanew[2], 4) = NTHeader_SIGNAUTRE
            THEN Len(visited) > 2 \/ (pc = "file_header" /\ i = lfanew[2] + 4)
            ELSE /\ Len(visited) = 2
                 /\ pc = "done"
                 /\ outcome = "err"
                 /\ AsUsizeLe(lfanew, Len(file)) =>
                        errors[1] = [at |-> lfanew[2], reason |-> Nom("Tag")]

\* C27: the conversion of a 32-bit TimeDateStamp to a datetime is defined
\* for every value, the largest one (day 49710 after the epoch) included,
\* so no decode fails with the "wrong timestamp format" rejection, in the
\* file header or in the export directory.
C27_TimestampAlwaysValid ==
    /\ \A ts \in U32Edges :
           /\ from_timestamp_opt(ts).some
           /\ from_timestamp_opt(ts).days <= from_timestamp_opt(U32(W16 - 1, W16 - 1)).days
           /\ from_timestamp_opt(ts).secs < 86400
    /\ from_timestamp_opt(U32(W16 - 1, W16 - 1)).days = 49710
    /\ from_timestamp_opt(U32(W16 - 1, W16 - 1)).days + 719163 <= MaxDaysFromCe
    /\ \A k \in 1..Len(errors) : errors[k].reason # String("wrong timestamp format")
    /\ (Len(visited) > 3 /\ Remaining(file, lfanew_offset(dos_header)[2]) >= 12) =>
           \E ts \in {le_u32(file, lfanew_offset(dos_header)[2] + 8).val} :
               file_header.datetime = [days |-> from_timestamp_opt(ts).days,
                                       secs |-> from_timestamp_opt(ts).secs]

\* C27 reached: an image whose two TimeDateStamps are 0xFFFFFFFF has been
\* decoded, file header and export directory dated day 49710
C27_Witness ==
    /\ outcome = "ok"
    /\ file_header.datetime = [days |-> 49710, secs |-> 23295]
    /\ export.some
    /\ export.val.datetime = [days |-> 49710, secs |-> 23295]

\* C28: for every section and every rva >= vir_addr the translation does
\* not overflow: the call returns, and what it returns has not wrapped
\* below either term of the sum, rva - vir_addr and ptr_to_raw_data.
\* Refuted: the sum can pass 2^32; the call then aborts or wraps.
C28_NoOverflow ==
    (pc = "returned" /\ U32Ge(arg.rva, arg.section.vir_addr)) =>
        /\ ~ret.panic
        /\ ret.ok =>
               /\ U32Ge(ret.val.val, U32Sub(arg.rva, arg.section.vir_addr))
               /\ ~U32AddOverflows(U32Sub(arg.rva, arg.section.vir_addr),
                                   arg.section.ptr_to_raw_data)

\* C29: within the import decoding every RVA followed is translated with
\* the one section selected for the RVA of the import directory.  In a
\* decoded list, a name RVA below that section's virtual address gives the
\* empty name and any other the string at its offset through that section;
\* a lookup-table RVA below it gives no import; the imports are those of
\* the lookup-table entries with the high bit clear that are not below it,
\* each hint read at the entry's offset through that section.  A table
\* whose descriptors have both RVAs below it does not abort the decode.
C29_OneSection ==
    (visited # <<>> /\ visited[Len(visited)] \in {"imports", "export"}
       /\ find_directory_by_entry(optional_header, "Import").some
       /\ find_by_address(sections,
              find_directory_by_entry(optional_header, "Import").val.virtual_address).some) =>
        \E sec \in {find_by_address(sections,
                        find_directory_by_entry(optional_header, "Import").val.virtual_address).val} :
            /\ imports.some =>
                   \A k \in 1..Len(imports.val.directory_table) :
                       \E d \in {imports.val.directory_table[k]} :
                           /\ IF ~U32Ge(d.name_rva, sec.vir_addr) THEN d.name = <<>>
                              ELSE d.name = read_null_terminated_string(file,
                                                U32WrappingAdd(U32Sub(d.name_rva, sec.vir_addr),
                                                               sec.ptr_to_raw_data)[2])
                           /\ ~U32Ge(d.original_first_thunk, sec.vir_addr) =>
                                  d.import_by_names = <<>>
                           /\ U32Ge(d.original_first_thunk, sec.vir_addr) =>
                                  \E es \in {SelectSeq(
                                                read_import_lookup_table_from(file,
                                                    U32WrappingAdd(U32Sub(d.original_first_thunk,
                                                                          sec.vir_addr),
                                                                   sec.ptr_to_raw_data)[2], <<>>).val,
                                                LAMBDA e : ~IsOrdinal(e) /\ U32Ge(e, sec.vir_addr))} :
                                      /\ Len(d.import_by_names) = Len(es)
                                      /\ \A j \in 1..Len(es) :
                                             d.import_by_names[j].hint
                                                 = le_u16(file,
                                                       U32WrappingAdd(U32Sub(es[j], sec.vir_addr),
                                                                      sec.ptr_to_raw_data)[2]).val
            /\ \E o \in {directory_offset(file, sections,
                             find_directory_by_entry(optional_header, "Import").val.virtual_address)} :
                   (/\ o.some
                    /\ \A k \in 0..((Remaining(file, o.val) \div 20) - 1) :
                           /\ ~U32Ge(le_u32(file, o.val + 20 * k).val, sec.vir_addr)
                           /\ ~U32Ge(le_u32(file, o.val + 20 * k + 12).val, sec.vir_addr)) =>
                       outcome # "abort" \/ visited[Len(visited)] = "export"

\* C29 reached: the import directory is in the first section of the table,
\* the name and the lookup table of its descriptor are at addresses of the
\* second section, below the first: the name is empty and no import is listed
C29_Witness ==
    /\ outcome = "ok"
    /\ Len(sections) = 2
    /\ ~U32Ge(sections[2].vir_addr, sections[1].vir_addr)
    /\ imports.some
    /\ Len(imports.val.directory_table) = 1
    /\ find_by_address(sections,
           find_directory_by_entry(optional_header, "Import").val.virtual_address)
           = Some(sections[1])
    /\ find_by_address(sections, imports.val.directory_table[1].name_rva) = Some(sections[2])
    /\ U32Ge(imports.val.directory_table[1].original_first_thunk, sections[2].vir_addr)
    /\ imports.val.directory_table[1].name = <<>>
    /\ imports.val.directory_table[1].import_by_names = <<>>

\* C30: the section table is read from the byte after the last entry of
\* the data directories: once the sections stage has run, the cursor is at
\* the signature + 4 + 20 + the optional header's scalar fields + 8 bytes
\* for each directory, and the sections are the records from there.
\* SizeOfOptionalHeader is stored in the file header and used nowhere: the
\* buffer that differs only in these 2 bytes decodes to the same outcome,
\* the same errors, the same sections, imports and export.
C30_SizeOfOptionalHeaderUnused ==
    (Len(visited) >= 6 /\ visited[6] = "sections") =>
        \E lfanew \in {lfanew_offset(dos_header)[2]} :
        \E start \in {lfanew + 26
                        + ReadersSize(IF optional_header.variant = "Op32"
                                      THEN OptionalHeader32_readers
                                      ELSE OptionalHeader64_readers, 1)
                        + 8 * Len(optional_header.data_directories)} :
            /\ i = start
            /\ file_header.size_of_optional_header = le_u16(file, lfanew + 20).val
            /\ ~(Len(visited) = 6 /\ pc = "done") =>
                   sections = Sections_from(file, start, file_header.num_of_sections, <<>>).val
            /\ pc = "done" =>
                   \A v \in {0, 112, 224, W16 - 1} :
                       \E r \in {PE_parse(with_size_of_optional_header(file, lfanew, v))} :
                           /\ r.ok = (outcome = "ok")
                           /\ r.panic = (outcome = "abort")
                           /\ r.errors = errors
                           /\ r.ok =>
                                  /\ r.pos = i
                                  /\ r.val.header.file_header
                                         = [file_header EXCEPT !.size_of_optional_header = v]
                                  /\ r.val.header.optional_header = optional_header
                                  /\ r.val.header.sections = sections
                                  /\ r.val.imports = imports
                                  /\ r.val.export = export

\* C30 reached: an image whose SizeOfOptionalHeader is not the size of its
\* optional header (0, or the largest) is decoded, with its two sections,
\* its import and its export
C30_Witness ==
    /\ outcome = "ok"
    /\ file_header.size_of_optional_header \in {0, W16 - 1}
    /\ Len(sections) = 2
    /\ imports.some
    /\ Len(imports.val.directory_table) = 1
    /\ export.some
    /\ sections = PE_parse(with_size_of_optional_header(file, lfanew_offset(dos_header)[2],
                                                        112)).val.header.sections

=============================================================================
